---- MODULE Spec2Model ----
(***************************************************************************)
(* The active-workout session engine of the fitness tracker (src/script.js, *)
(* the newer variant, lines 1-2064): the in-memory state tree, the         *)
(* operations that create, edit, finish and discard the active workout,    *)
(* the history ledger, the elapsed-time ticker and the rest timer.         *)
(*                                                                         *)
(* JavaScript values are modelled as follows.  A record field that is      *)
(* absent (undefined) holds Undef, a field holding null holds Null; text   *)
(* fields are strings, '' is the empty string.  Truthiness is computed by  *)
(* TruthyNum / TruthyStr the way JavaScript computes it.  A setInterval    *)
(* handle is either NoInterval (null) or LiveInterval; an interval whose   *)
(* handle was overwritten without clearInterval stays live and is counted  *)
(* in leakedIntervals.                                                     *)
(***************************************************************************)
EXTENDS Integers, Sequences, FiniteSets, TLC

\* ------------------------------------------------------------------ bounds
\* the number of operations of one run
MaxSteps == 3
MaxRestSteps == 6
MaxSaveSteps == 6
MaxPerfSteps == 2
MaxIdSteps == 5
MaxEditSteps == 4
MaxFlightSteps == 6
MaxCatalogSteps == 3
MaxWeekSteps == 4
MaxPauseSteps == 7

\* ------------------------------------------------------- JavaScript values
Undef == -1
Null == -2
UndefStr == "undefined"

TruthyNum(x) == x # Undef /\ x # Null /\ x # 0
TruthyStr(s) == s # UndefStr /\ s # ""

\* state.activeWorkout = null
NoWorkout == [absent |-> TRUE]

NoInterval == 0
LiveInterval == 1

\* --------------------------------------------------------------- variables
VARIABLES
    exercises,              \* state.exercises: the catalog
    programs,               \* state.programs
    standaloneWorkouts,     \* state.standaloneWorkouts
    currentWeek,            \* state.currentWeek
    currentProgram,         \* state.currentProgram (Null when no program is selected)
    workoutHistory,         \* state.workoutHistory
    activeWorkout,          \* state.activeWorkout (NoWorkout when null)
    viewOpen,               \* activeWorkoutModal has class 'active'
    workoutDurationInterval,\* handle of the elapsed-time ticker
    workoutStartTime,       \* let workoutStartTime
    restTimerInterval,      \* handle of the rest countdown
    leakedIntervals,        \* live rest countdowns whose handle was lost
    restTimerRemaining,
    restTimerTotal,
    restTimerExerciseName,  \* the exercise the rest-timer overlay names
    now,                    \* the wall clock, Date.now()
    stored,                 \* the 'currentState' entry of the object store
    saveTimeouts,           \* live timeouts of debouncedSaveState
    storageUp,              \* whether store.put succeeds at the moment
    storageSlow,            \* whether a put may still be under way when the next handler runs
    inFlight,               \* the saves issued whose put has not completed, oldest first
    lastSave,               \* what the last operation did about saving
    lastPerf,               \* the last call of getLastExercisePerformance and its result
    trackedWorkout,         \* older variant: state.activeWorkout with its pause fields
    trackedViewOpen,        \* older variant: activeWorkoutModal has class 'active'
    durationSeconds,        \* older variant: durationSeconds of the record last pushed
    closedMillis,           \* the time the view was closed during the tracked session
    lastOp,                 \* the operation that produced this state
    steps                   \* the number of operations performed so far

catalogVars == <<exercises, currentWeek, currentProgram>>
templateVars == <<programs, standaloneWorkouts>>
dataVars == <<catalogVars, templateVars>>
sessionVars == <<workoutHistory, activeWorkout, viewOpen>>
durationVars == <<workoutDurationInterval, workoutStartTime>>
restVars == <<restTimerInterval, leakedIntervals, restTimerRemaining, restTimerTotal,
             restTimerExerciseName>>
saveVars == <<stored, saveTimeouts, storageUp, storageSlow, inFlight, lastSave>>
pauseVars == <<trackedWorkout, trackedViewOpen, durationSeconds, closedMillis>>
vars == <<dataVars, sessionVars, durationVars, restVars, saveVars, pauseVars, lastPerf, now,
          lastOp, steps>>

\* -------------------------------------------------------------- persistence
\* stateToSave of saveState(): the whole document. store.put() clones it after
\* the handler that called saveState() has returned, so what the handler does
\* after the call is in it.
stateToSave ==
    [exercises |-> exercises, programs |-> programs,
     standaloneWorkouts |-> standaloneWorkouts,
     currentProgram |-> currentProgram, currentWeek |-> currentWeek,
     workoutHistory |-> workoutHistory, activeWorkout |-> activeWorkout]

\* db.save(document): store.put(document, 'currentState') replaces the entry
\* when the request succeeds and leaves it alone when it fails
dbSave(document) == IF storageUp THEN document ELSE stored

\* saveState(), called without await and without a rejection handler: a
\* rejected db.save() surfaces as an unhandled promise rejection
\* stateToSave holds the catalog, the history and the session by reference:
\* until the put clones them, what later handlers do to those objects shows in
\* the save. A session that is null is a value, not an object.
LiveFields(document) ==
    {"exercises", "workoutHistory"}
        \cup (IF document.activeWorkout # NoWorkout THEN {"activeWorkout"} ELSE {})

\* the fields of state a handler assigns a new object to
Replaced(op) ==
    CASE op \in {"startProgramWorkout", "startStandaloneWorkout", "startQuickWorkout",
                 "editHistoryWorkout", "finishWorkout", "discardWorkout"} -> {"activeWorkout"}
      [] op = "deleteHistoryWorkout" -> {"workoutHistory"}
      [] op = "deleteExercise" -> {"exercises"}
      [] OTHER -> {}

\* a save under way after a handler has replaced objects: the objects it holds
\* stay as the handler found them
Detached(save, replaced) ==
    [document |-> [name \in DOMAIN save.document |->
                      IF name \in save.live \cap replaced
                      THEN stateToSave[name] ELSE save.document[name]],
     live |-> save.live \ replaced,
     behind |-> save.behind]

\* what store.put() clones for a save under way
Content(save) ==
    [name \in DOMAIN save.document |->
        IF name \in save.live THEN stateToSave[name] ELSE save.document[name]]

\* db.save(document) is called: with a slow store the put joins the ones under
\* way, otherwise it completes before the next handler runs
issueSave(document, replaced) ==
    IF storageSlow
    THEN /\ inFlight' = Append([k \in 1..Len(inFlight) |-> Detached(inFlight[k], replaced)],
                               [document |-> document, live |-> LiveFields(document),
                                behind |-> Len(inFlight)])
         /\ stored' = stored
         /\ lastSave' = "issued"
    ELSE /\ stored' = dbSave(document)
         /\ lastSave' = IF storageUp THEN "saved" ELSE "unhandledrejection"
         /\ inFlight' = inFlight

saveState ==
    /\ issueSave(stateToSave', Replaced(lastOp'))
    /\ UNCHANGED <<saveTimeouts, storageUp, storageSlow>>

\* debouncedSaveState(): clearTimeout(timeout); timeout = setTimeout(saveState, 1000)
\* mutant: the timeout of the previous call is left to fire
debouncedSaveState_noClear ==
    /\ saveTimeouts' = saveTimeouts + 1
    /\ lastSave' = IF saveTimeouts > 0 THEN "rescheduled" ELSE "scheduled"
    /\ UNCHANGED <<stored, storageUp, storageSlow, inFlight>>

debouncedSaveState ==
    /\ saveTimeouts' = 1
    /\ lastSave' = IF saveTimeouts > 0 THEN "rescheduled" ELSE "scheduled"
    /\ UNCHANGED <<stored, storageUp, storageSlow, inFlight>>

\* a handler that returns without calling saveState()
noSave ==
    /\ lastSave' = "none"
    /\ UNCHANGED <<stored, saveTimeouts, storageUp, storageSlow, inFlight>>

\* ------------------------------------------------------------ input values
NaN == -3
\* parseInt on the digit-only text the rest input lets through (enforceNumeric)
ParseInt(s) == CASE s = "" -> NaN
                 [] s = "0" -> 0
                 [] s = "2" -> 2
                 [] s = "5" -> 5
                 [] OTHER -> NaN
\* x || 0 on a number
OrZero(x) == IF x = NaN \/ x = 0 THEN 0 ELSE x

WeightInputs == {"", "135"}
RepsInputs == {"", "10"}
RestInputs == {"", "5"}
NotesInputs == {"", "easy"}
NameInputs == {"", " Arms "}
DeltaInputs == {-2, 2}
Fields == {"weight", "reps"}

\* name.trim() on the names typed above
Trim(s) == IF s = " Arms " THEN "Arms" ELSE s

\* ---------------------------------------------------------------- helpers
Range(f) == {f[i] : i \in DOMAIN f}

\* Array.prototype.filter with the id test used by the delete operations
FilterSeq(seq, dropId) == SelectSeq(seq, LAMBDA entry : entry.id # dropId)

\* Array.prototype.splice(i, 1)
RemoveAt(seq, i) == [k \in 1..(Len(seq) - 1) |-> IF k < i THEN seq[k] ELSE seq[k + 1]]

\* Array.prototype.findIndex on the id; 0 stands for -1 (not found)
FindIndex(seq, id) ==
    IF \E k \in 1..Len(seq) : seq[k].id = id
    THEN CHOOSE k \in 1..Len(seq) : seq[k].id = id /\ \A m \in 1..(k - 1) : seq[m].id # id
    ELSE 0

DefaultRest == 90

\* mutant: the catalog is not consulted
getRestTimeForExercise_always90(exerciseId) == DefaultRest

getRestTimeForExercise(exerciseId) ==
    LET k == FindIndex(exercises, exerciseId)
    IN IF k # 0 /\ TruthyNum(exercises[k].restTime) THEN exercises[k].restTime ELSE DefaultRest

\* JSON.parse(JSON.stringify(record)) of a history record, read as a session:
\* every field of the record survives with its value, a missing field stays missing
deepClone(record) ==
    [type |-> UndefStr,
     programId |-> record.programId,
     workoutIndex |-> record.workoutIndex,
     week |-> record.week,
     standaloneWorkoutId |-> Undef,
     name |-> record.name,
     exercises |-> [k \in 1..Len(record.exercises) |->
                       [exerciseId |-> record.exercises[k].exerciseId,
                        restTime |-> Undef,
                        sets |-> record.exercises[k].sets,
                        setsOf |-> Undef]],
     notes |-> record.notes,
     startTime |-> Undef,
     historyId |-> Undef,
     id |-> record.id,
     date |-> record.date]

\* mutant: the target reps are entered as the reps done
SessionExercises_prefilled(template) ==
    [k \in 1..Len(template.exercises) |->
        LET ex == template.exercises[k]
        IN [exerciseId |-> ex.exerciseId,
            restTime |-> IF ex.restTime # Undef THEN ex.restTime
                         ELSE getRestTimeForExercise(ex.exerciseId),
            sets |-> [j \in 1..Len(ex.sets) |->
                        [weight |-> "",
                         targetReps |-> IF TruthyStr(ex.sets[j].reps) THEN ex.sets[j].reps ELSE "",
                         reps |-> IF TruthyStr(ex.sets[j].reps) THEN ex.sets[j].reps ELSE "",
                         completed |-> FALSE]],
            setsOf |-> Undef]]

\* mutant: the logging sets are written into the template's own sets array
SessionExercises_inPlace(template) ==
    [k \in 1..Len(template.exercises) |->
        LET ex == template.exercises[k]
        IN [exerciseId |-> ex.exerciseId,
            restTime |-> IF ex.restTime # Undef THEN ex.restTime
                         ELSE getRestTimeForExercise(ex.exerciseId),
            sets |-> [j \in 1..Len(ex.sets) |->
                        [weight |-> "",
                         targetReps |-> IF TruthyStr(ex.sets[j].reps) THEN ex.sets[j].reps ELSE "",
                         reps |-> "",
                         completed |-> FALSE]],
            setsOf |-> k]]

\* the template -> session materialisation shared by the two start operations.
\* Both map() calls build new objects: setsOf names the template exercise whose
\* sets array a session exercise holds, Undef for an array of its own.
SessionExercises(template) ==
    [k \in 1..Len(template.exercises) |->
        LET ex == template.exercises[k]
        IN [exerciseId |-> ex.exerciseId,
            restTime |-> IF ex.restTime # Undef THEN ex.restTime
                         ELSE getRestTimeForExercise(ex.exerciseId),
            sets |-> [j \in 1..Len(ex.sets) |->
                        [weight |-> "",
                         targetReps |-> IF TruthyStr(ex.sets[j].reps) THEN ex.sets[j].reps ELSE "",
                         reps |-> "",
                         completed |-> FALSE]],
            setsOf |-> Undef]]

\* An array is one object: what the session writes into a sets array that a
\* template exercise also holds is what the template holds afterwards.
WriteThrough(template, aw) ==
    [template EXCEPT !.exercises =
        [k \in 1..Len(template.exercises) |->
            IF \E i \in 1..Len(aw.exercises) : aw.exercises[i].setsOf = k
            THEN [template.exercises[k] EXCEPT !.sets =
                     aw.exercises[CHOOSE i \in 1..Len(aw.exercises) :
                                     aw.exercises[i].setsOf = k].sets]
            ELSE template.exercises[k]]]

\* state.programs and state.standaloneWorkouts once the session's objects hold aw
TemplatesSee(aw) ==
    /\ programs' = [p \in 1..Len(programs) |->
          IF aw.type = "program" /\ programs[p].id = aw.programId
          THEN [programs[p] EXCEPT !.workouts[aw.workoutIndex] = WriteThrough(@, aw)]
          ELSE programs[p]]
    /\ standaloneWorkouts' = [w \in 1..Len(standaloneWorkouts) |->
          IF aw.type = "standalone" /\ standaloneWorkouts[w].id = aw.standaloneWorkoutId
          THEN WriteThrough(standaloneWorkouts[w], aw)
          ELSE standaloneWorkouts[w]]

\* a write to the session's objects
SessionBecomes(aw) ==
    /\ activeWorkout' = aw
    /\ TemplatesSee(aw)

\* mutant: a set counts only when it is completed
Qualifies_completedOnly(s) == s.completed

\* s.completed || (s.weight && s.reps)
Qualifies(s) == s.completed \/ (TruthyStr(s.weight) /\ TruthyStr(s.reps))

RECURSIVE NonEmptyExercises(_)
NonEmptyExercises(seq) ==
    IF seq = <<>> THEN <<>>
    ELSE IF Len(Head(seq).sets) > 0 THEN <<Head(seq)>> \o NonEmptyExercises(Tail(seq))
         ELSE NonEmptyExercises(Tail(seq))

\* const completedExercises = ...map(...).filter(ex => ex.sets.length > 0)
completedExercises(aw) ==
    NonEmptyExercises([k \in 1..Len(aw.exercises) |->
        [exerciseId |-> aw.exercises[k].exerciseId,
         sets |-> SelectSeq(aw.exercises[k].sets, Qualifies)]])

\* ------------------------------------------------------------------- Init
\* The state after initializeApp() has loaded the stored document: the catalog
\* and the templates, a history written by earlier runs, possibly a workout
\* that was in progress when the page was left, no modal open, no timer live.
\* Of the catalog (initializeApp keeps at least 50 entries) the model follows
\* the two entries the templates refer to, with rest times a countdown can
\* run through within a run.
InitExercises ==
    <<[id |-> 1, name |-> "Barbell Bench Press", restTime |-> 2],
      [id |-> 2, name |-> "Dumbbell Bench Press", restTime |-> 3]>>

InitPrograms ==
    <<[id |-> 1, name |-> "Push Pull Legs", weeks |-> 4,
       workouts |-> <<[name |-> "Push Day",
                       exercises |-> <<[exerciseId |-> 1, restTime |-> 1,
                                        sets |-> <<[reps |-> "8-12"], [reps |-> "8-12"]>>]>>]>>]>>

InitStandalone ==
    <<[id |-> 7, name |-> "Legs",
       exercises |-> <<[exerciseId |-> 2, restTime |-> Undef,
                        sets |-> <<[reps |-> UndefStr]>>],
                       [exerciseId |-> 1, restTime |-> 0, sets |-> <<>>]>>]>>

\* every state a logging set can be in
SetStates(targetReps) ==
    {[weight |-> w, targetReps |-> targetReps, reps |-> r, completed |-> c] :
        w \in WeightInputs, r \in RepsInputs, c \in BOOLEAN}

\* the session startProgramWorkout(1, 1) creates, opened at time 1 and logged
ProgramSessions ==
    {[activeWorkout0 EXCEPT !.exercises[1].sets = <<s1, s2>>] :
        s1 \in SetStates("8-12"), s2 \in SetStates("8-12"),
        activeWorkout0 \in {[type |-> "program", programId |-> 1, workoutIndex |-> 1,
                             week |-> 1, standaloneWorkoutId |-> Undef, name |-> "Push Day",
                             exercises |-> <<[exerciseId |-> 1, restTime |-> 1,
                                              sets |-> <<>>, setsOf |-> Undef]>>,
                             notes |-> "", startTime |-> 1, historyId |-> Undef,
                             id |-> Undef, date |-> Undef]}}

\* the session startStandaloneWorkout(7) creates, opened at time 2 and logged
StandaloneSessions ==
    {[type |-> "standalone", programId |-> Undef, workoutIndex |-> Undef,
      week |-> Undef, standaloneWorkoutId |-> 7, name |-> "Legs",
      exercises |-> <<[exerciseId |-> 2, restTime |-> 3, sets |-> <<s1>>,
                       setsOf |-> Undef],
                      [exerciseId |-> 1, restTime |-> 0, sets |-> <<>>,
                       setsOf |-> Undef]>>,
      notes |-> n, startTime |-> 2, historyId |-> Undef,
      id |-> Undef, date |-> Undef] : s1 \in SetStates(""), n \in NotesInputs}

\* the history records two earlier runs committed, at times 1 and 2
Record1 ==
    [id |-> 1, date |-> 1, programId |-> 1, workoutIndex |-> 1, week |-> 1,
     name |-> "Push Day",
     exercises |-> <<[exerciseId |-> 1,
                      sets |-> <<[weight |-> "135", targetReps |-> "8-12", reps |-> "10",
                                  completed |-> FALSE],
                                 [weight |-> "135", targetReps |-> "8-12", reps |-> "10",
                                  completed |-> TRUE]>>]>>,
     notes |-> ""]

Record2 ==
    [id |-> 2, date |-> 2, programId |-> Null, workoutIndex |-> Undef, week |-> 1,
     name |-> "Legs",
     exercises |-> <<[exerciseId |-> 2,
                      sets |-> <<[weight |-> "", targetReps |-> "", reps |-> "",
                                  completed |-> TRUE]>>]>>,
     notes |-> "easy"]

LoadedHistories == {<<>>, <<Record1>>, <<Record1, Record2>>}

\* a record of the loaded history that was being edited when the page was left
ResumedSessions(history) ==
    {[deepClone(history[k]) EXCEPT !.historyId = history[k].id, !.startTime = 2] :
        k \in 1..Len(history)}

\* the state after initializeApp() has loaded a document with this history and
\* this session
LoadedWith(catalog, history, session) ==
    /\ exercises = catalog
    /\ programs = InitPrograms
    /\ standaloneWorkouts = InitStandalone
    /\ currentWeek = 1
    /\ currentProgram = InitPrograms[1].id
    /\ workoutHistory = history
    /\ activeWorkout = session
    /\ viewOpen = FALSE
    /\ workoutDurationInterval = NoInterval
    /\ workoutStartTime = Null
    /\ restTimerInterval = NoInterval
    /\ leakedIntervals = 0
    /\ restTimerRemaining = 0
    /\ restTimerTotal = 0
    /\ restTimerExerciseName = ""
    /\ now = 3
    /\ stored = stateToSave
    /\ saveTimeouts = 0
    /\ storageUp = TRUE
    /\ storageSlow = FALSE
    /\ inFlight = <<>>
    /\ lastSave = "none"
    /\ lastPerf = [exerciseId |-> Undef, result |-> NoWorkout]
    /\ trackedWorkout = NoWorkout
    /\ trackedViewOpen = FALSE
    /\ durationSeconds = Null
    /\ closedMillis = 0
    /\ lastOp = "init"
    /\ steps = 0

Loaded(history, session) == LoadedWith(InitExercises, history, session)

Init ==
    \E history \in LoadedHistories :
        \E session \in {NoWorkout} \cup ProgramSessions \cup StandaloneSessions
                        \cup ResumedSessions(history) :
            Loaded(history, session)

\* ------------------------------------------------- elapsed-time ticker
\* startWorkoutTimer(), called by openActiveWorkout() on the session aw
\* mutant: every opening of the view starts the count anew
StartedAt_restarts(aw) == now

StartedAt(aw) == IF TruthyNum(aw.startTime) THEN aw.startTime ELSE now

\* updateWorkoutDurationDisplay(): the elapsed time the ticker shows
Elapsed == now - workoutStartTime

\* openActiveWorkout() on the session aw that the caller has just stored
OpenView(aw) ==
    /\ SessionBecomes([aw EXCEPT !.startTime = StartedAt(aw)])
    /\ viewOpen' = TRUE
    /\ workoutStartTime' = StartedAt(aw)
    /\ workoutDurationInterval' = LiveInterval

\* stopWorkoutTimer()
stopWorkoutTimer == workoutDurationInterval' = NoInterval

\* ------------------------------------------------------ start operations
NewSession(type, programId, workoutIndex, week, standaloneId, name, exs) ==
    [type |-> type, programId |-> programId, workoutIndex |-> workoutIndex,
     week |-> week, standaloneWorkoutId |-> standaloneId, name |-> name,
     exercises |-> exs, notes |-> "", startTime |-> Undef, historyId |-> Undef,
     id |-> Undef, date |-> Undef]

\* confirm() is asked only when a workout is in progress
Declined(ok) == activeWorkout # NoWorkout /\ ~ok

startProgramWorkout(programId, index, ok) ==
    /\ \E p \in 1..Len(programs) : programs[p].id = programId /\ index \in 1..Len(programs[p].workouts)
    /\ IF Declined(ok)
       THEN /\ lastOp' = "startProgramWorkout:declined"
            /\ UNCHANGED <<templateVars, sessionVars, durationVars>>
       ELSE LET program == programs[FindIndex(programs, programId)]
                template == program.workouts[index]
            IN /\ OpenView(NewSession("program", program.id, index,
                                      IF TruthyNum(currentWeek) THEN currentWeek ELSE 1,
                                      Undef, template.name, SessionExercises(template)))
               /\ lastOp' = "startProgramWorkout"
               /\ UNCHANGED workoutHistory
    /\ UNCHANGED <<catalogVars, restVars, now>>
    /\ IF lastOp' = "startProgramWorkout" THEN saveState ELSE noSave

startStandaloneWorkout(id, ok) ==
    /\ IF Declined(ok)
       THEN /\ lastOp' = "startStandaloneWorkout:declined"
            /\ UNCHANGED <<templateVars, sessionVars, durationVars>>
       ELSE IF FindIndex(standaloneWorkouts, id) = 0
       THEN /\ lastOp' = "startStandaloneWorkout:missing"
            /\ UNCHANGED <<templateVars, sessionVars, durationVars>>
       ELSE LET template == standaloneWorkouts[FindIndex(standaloneWorkouts, id)]
            IN /\ OpenView(NewSession("standalone", Undef, Undef, Undef, id,
                                      template.name, SessionExercises(template)))
               /\ lastOp' = "startStandaloneWorkout"
               /\ UNCHANGED workoutHistory
    /\ UNCHANGED <<catalogVars, restVars, now>>
    /\ IF lastOp' = "startStandaloneWorkout" THEN saveState ELSE noSave

\* name is what prompt() returns: UndefStr stands for null (the user cancelled)
startQuickWorkout(ok, name) ==
    /\ IF Declined(ok)
       THEN /\ lastOp' = "startQuickWorkout:declined"
            /\ UNCHANGED <<templateVars, sessionVars, durationVars>>
       ELSE IF name = UndefStr
       THEN /\ lastOp' = "startQuickWorkout:cancelled"
            /\ UNCHANGED <<templateVars, sessionVars, durationVars>>
       ELSE /\ OpenView(NewSession("freestyle", Undef, Undef, Undef, Undef,
                                   IF TruthyStr(Trim(name)) THEN Trim(name) ELSE "Quick Workout",
                                   <<>>))
            /\ lastOp' = "startQuickWorkout"
            /\ UNCHANGED workoutHistory
    /\ UNCHANGED <<catalogVars, restVars, now>>
    /\ IF lastOp' = "startQuickWorkout" THEN saveState ELSE noSave

\* the resume card of the training tab: resumeCard.onclick
openActiveWorkout ==
    /\ activeWorkout # NoWorkout
    /\ ~viewOpen
    /\ OpenView(activeWorkout)
    /\ lastOp' = "openActiveWorkout"
    /\ UNCHANGED <<catalogVars, workoutHistory, restVars, now>>
    /\ noSave

closeActiveWorkout ==
    /\ viewOpen
    /\ viewOpen' = FALSE
    /\ stopWorkoutTimer
    /\ lastOp' = "closeActiveWorkout"
    /\ UNCHANGED <<dataVars, workoutHistory, activeWorkout, workoutStartTime, restVars, now>>
    /\ noSave

\* ---------------------------------------------------- logging operations
\* The controls of these operations are rendered inside the active-workout
\* modal, so they act only while it is open on a session.
Logging == activeWorkout # NoWorkout /\ viewOpen

HasSet(exIndex, setIndex) ==
    /\ exIndex \in 1..Len(activeWorkout.exercises)
    /\ setIndex \in 1..Len(activeWorkout.exercises[exIndex].sets)

updateActiveExerciseRest(exIndex, val) ==
    /\ Logging
    /\ exIndex \in 1..Len(activeWorkout.exercises)
    /\ SessionBecomes([activeWorkout EXCEPT !.exercises[exIndex].restTime = OrZero(ParseInt(val))])
    /\ lastOp' = "updateActiveExerciseRest"
    /\ UNCHANGED <<catalogVars, workoutHistory, viewOpen, durationVars, restVars, now>>
    /\ debouncedSaveState

\* state.activeWorkout.exercises[exIndex].sets[setIndex][field] = value
SetField(aw, exIndex, setIndex, field, value) ==
    [aw EXCEPT !.exercises[exIndex].sets[setIndex][field] = value]

updateActiveSet(exIndex, setIndex, field, value) ==
    /\ Logging
    /\ HasSet(exIndex, setIndex)
    /\ SessionBecomes(SetField(activeWorkout, exIndex, setIndex, field, value))
    /\ lastOp' = "updateActiveSet"
    /\ UNCHANGED <<catalogVars, workoutHistory, viewOpen, durationVars, restVars, now>>
    /\ debouncedSaveState

\* mutant: the notes of an edit session are the notes of the record itself
updateNotes_writesRecord(value) ==
    /\ Logging
    /\ SessionBecomes([activeWorkout EXCEPT !.notes = value])
    /\ workoutHistory' =
           IF FindIndex(workoutHistory, activeWorkout.historyId) # 0
           THEN [workoutHistory EXCEPT ![FindIndex(workoutHistory, activeWorkout.historyId)].notes = value]
           ELSE workoutHistory
    /\ lastOp' = "updateNotes"
    /\ UNCHANGED <<catalogVars, viewOpen, durationVars, restVars, now>>
    /\ debouncedSaveState

\* the 'input' listener of the workoutNotes field
updateNotes(value) ==
    /\ Logging
    /\ SessionBecomes([activeWorkout EXCEPT !.notes = value])
    /\ lastOp' = "updateNotes"
    /\ UNCHANGED <<catalogVars, workoutHistory, viewOpen, durationVars, restVars, now>>
    /\ debouncedSaveState

\* mutant: the catalog's rest time is taken before the session exercise's own
RestDuration_catalogFirst(exercise) ==
    IF FindIndex(exercises, exercise.exerciseId) # 0
    THEN exercises[FindIndex(exercises, exercise.exerciseId)].restTime
    ELSE IF exercise.restTime # Undef THEN exercise.restTime ELSE DefaultRest

\* const duration = exercise.restTime !== undefined ? exercise.restTime
\*                  : (exerciseData ? exerciseData.restTime : 90)
RestDuration(exercise) ==
    IF exercise.restTime # Undef THEN exercise.restTime
    ELSE IF FindIndex(exercises, exercise.exerciseId) # 0
         THEN exercises[FindIndex(exercises, exercise.exerciseId)].restTime
         ELSE DefaultRest

\* const exerciseName = exerciseData ? exerciseData.name : 'Exercise'
ExerciseName(exercise) ==
    IF FindIndex(exercises, exercise.exerciseId) # 0
    THEN exercises[FindIndex(exercises, exercise.exerciseId)].name
    ELSE "Exercise"

\* startRestTimer(duration, exerciseName): setInterval overwrites the handle
\* without clearing it, so a countdown that was live stays live
startRestTimer(duration, exerciseName) ==
    /\ restTimerTotal' = duration
    /\ restTimerExerciseName' = exerciseName
    /\ restTimerRemaining' = duration
    /\ leakedIntervals' = IF restTimerInterval = LiveInterval
                          THEN leakedIntervals + 1 ELSE leakedIntervals
    /\ restTimerInterval' = LiveInterval

\* mutant: un-completing a set cancels the countdown
toggleSetComplete_cancelsOnUncheck(exIndex, setIndex) ==
    /\ Logging
    /\ HasSet(exIndex, setIndex)
    /\ LET set == activeWorkout.exercises[exIndex].sets[setIndex]
           wasCompleted == set.completed
       IN /\ SessionBecomes([activeWorkout EXCEPT
                                  !.exercises[exIndex].sets[setIndex].completed = ~wasCompleted])
          /\ IF ~wasCompleted
             THEN /\ startRestTimer(RestDuration(activeWorkout.exercises[exIndex]),
                                  ExerciseName(activeWorkout.exercises[exIndex]))
                  /\ lastOp' = "toggleSetComplete:on"
             ELSE /\ restTimerInterval' = NoInterval
                  /\ UNCHANGED <<leakedIntervals, restTimerRemaining, restTimerTotal,
                                 restTimerExerciseName>>
                  /\ lastOp' = "toggleSetComplete:off"
    /\ UNCHANGED <<catalogVars, workoutHistory, viewOpen, durationVars, now>>
    /\ saveState

\* mutant: the toggle leaves the save to the debounce timer
toggleSetComplete_debounced(exIndex, setIndex) ==
    /\ Logging
    /\ HasSet(exIndex, setIndex)
    /\ LET set == activeWorkout.exercises[exIndex].sets[setIndex]
           wasCompleted == set.completed
       IN /\ SessionBecomes([activeWorkout EXCEPT
                                  !.exercises[exIndex].sets[setIndex].completed = ~wasCompleted])
          /\ IF ~wasCompleted
             THEN /\ startRestTimer(RestDuration(activeWorkout.exercises[exIndex]),
                                  ExerciseName(activeWorkout.exercises[exIndex]))
                  /\ lastOp' = "toggleSetComplete:on"
             ELSE /\ UNCHANGED restVars
                  /\ lastOp' = "toggleSetComplete:off"
    /\ UNCHANGED <<catalogVars, workoutHistory, viewOpen, durationVars, now>>
    /\ debouncedSaveState

toggleSetComplete(exIndex, setIndex) ==
    /\ Logging
    /\ HasSet(exIndex, setIndex)
    /\ LET set == activeWorkout.exercises[exIndex].sets[setIndex]
           wasCompleted == set.completed
       IN /\ SessionBecomes([activeWorkout EXCEPT
                                  !.exercises[exIndex].sets[setIndex].completed = ~wasCompleted])
          /\ IF ~wasCompleted
             THEN /\ startRestTimer(RestDuration(activeWorkout.exercises[exIndex]),
                                  ExerciseName(activeWorkout.exercises[exIndex]))
                  /\ lastOp' = "toggleSetComplete:on"
             ELSE /\ UNCHANGED restVars
                  /\ lastOp' = "toggleSetComplete:off"
    /\ UNCHANGED <<catalogVars, workoutHistory, viewOpen, durationVars, now>>
    /\ saveState

\* mutant: the new set is seeded from the first set of the exercise
addSetToActive_seedsFromFirst(exIndex) ==
    /\ Logging
    /\ exIndex \in 1..Len(activeWorkout.exercises)
    /\ LET sets == activeWorkout.exercises[exIndex].sets
           hasPrevious == Len(sets) > 0
           newSet == [weight |-> IF hasPrevious THEN sets[1].weight ELSE "",
                      reps |-> "",
                      targetReps |-> IF hasPrevious THEN sets[1].targetReps ELSE "",
                      completed |-> FALSE]
       IN SessionBecomes([activeWorkout EXCEPT !.exercises[exIndex].sets = Append(sets, newSet)])
    /\ lastOp' = "addSetToActive"
    /\ UNCHANGED <<catalogVars, workoutHistory, viewOpen, durationVars, restVars, now>>
    /\ saveState

addSetToActive(exIndex) ==
    /\ Logging
    /\ exIndex \in 1..Len(activeWorkout.exercises)
    /\ LET sets == activeWorkout.exercises[exIndex].sets
           hasPrevious == Len(sets) > 0
           newSet == [weight |-> IF hasPrevious THEN sets[Len(sets)].weight ELSE "",
                      reps |-> "",
                      targetReps |-> IF hasPrevious THEN sets[Len(sets)].targetReps ELSE "",
                      completed |-> FALSE]
       IN SessionBecomes([activeWorkout EXCEPT !.exercises[exIndex].sets = Append(sets, newSet)])
    /\ lastOp' = "addSetToActive"
    /\ UNCHANGED <<catalogVars, workoutHistory, viewOpen, durationVars, restVars, now>>
    /\ saveState

removeActiveExercise(exIndex, ok) ==
    /\ Logging
    /\ exIndex \in 1..Len(activeWorkout.exercises)
    /\ IF ok
       THEN /\ SessionBecomes([activeWorkout EXCEPT !.exercises = RemoveAt(@, exIndex)])
            /\ lastOp' = "removeActiveExercise"
       ELSE /\ UNCHANGED <<templateVars, activeWorkout>>
            /\ lastOp' = "removeActiveExercise:declined"
    /\ UNCHANGED <<catalogVars, workoutHistory, viewOpen, durationVars, restVars, now>>
    /\ IF lastOp' = "removeActiveExercise" THEN saveState ELSE noSave

\* mutant: an exercise the session already holds gets one more set instead of
\* a second entry
selectExercise_merges(k) ==
    /\ Logging
    /\ k \in 1..Len(exercises)
    /\ LET held == {j \in 1..Len(activeWorkout.exercises) :
                       activeWorkout.exercises[j].exerciseId = exercises[k].id}
           blank == [weight |-> "", reps |-> "", targetReps |-> "", completed |-> FALSE]
       IN IF held # {}
          THEN SessionBecomes([activeWorkout EXCEPT
                   !.exercises[CHOOSE j \in held : TRUE].sets = Append(@, blank)])
          ELSE SessionBecomes([activeWorkout EXCEPT !.exercises = Append(@,
                   [exerciseId |-> exercises[k].id,
                    restTime |-> IF TruthyNum(exercises[k].restTime) THEN exercises[k].restTime ELSE DefaultRest,
                    sets |-> <<blank>>,
                    setsOf |-> Undef])])
    /\ lastOp' = "selectExercise"
    /\ UNCHANGED <<catalogVars, workoutHistory, viewOpen, durationVars, restVars, now>>
    /\ saveState

\* selectExercise(exercise) with exerciseSelectionSource = 'activeWorkout';
\* exercise is an entry of the catalog
selectExercise(k) ==
    /\ Logging
    /\ k \in 1..Len(exercises)
    /\ SessionBecomes([activeWorkout EXCEPT !.exercises = Append(@,
           [exerciseId |-> exercises[k].id,
            restTime |-> IF TruthyNum(exercises[k].restTime) THEN exercises[k].restTime ELSE DefaultRest,
            sets |-> <<[weight |-> "", reps |-> "", targetReps |-> "", completed |-> FALSE]>>,
            setsOf |-> Undef])])
    /\ lastOp' = "selectExercise"
    /\ UNCHANGED <<catalogVars, workoutHistory, viewOpen, durationVars, restVars, now>>
    /\ saveState

\* mutant: a confirmed discard keeps what was logged as a history record
discardWorkout_commits(ok) ==
    /\ Logging
    /\ IF ok
       THEN /\ activeWorkout' = NoWorkout
            /\ workoutHistory' = Append(workoutHistory,
                   [id |-> now, date |-> now, programId |-> Null, workoutIndex |-> Undef,
                    week |-> 1, name |-> activeWorkout.name, exercises |-> <<>>, notes |-> ""])
            /\ stopWorkoutTimer
            /\ viewOpen' = FALSE
            /\ lastOp' = "discardWorkout"
       ELSE /\ UNCHANGED <<activeWorkout, workoutHistory, viewOpen, workoutDurationInterval>>
            /\ lastOp' = "discardWorkout:declined"
    /\ UNCHANGED <<dataVars, workoutStartTime, restVars, now>>
    /\ IF lastOp' = "discardWorkout" THEN saveState ELSE noSave

\* mutant: the session resumed from a record is the record itself, so that a
\* discard leaves what was logged in it
discardWorkout_writesBack(ok) ==
    /\ Logging
    /\ IF ok
       THEN /\ activeWorkout' = NoWorkout
            /\ workoutHistory' =
                   IF FindIndex(workoutHistory, activeWorkout.historyId) # 0
                   THEN [workoutHistory EXCEPT
                            ![FindIndex(workoutHistory, activeWorkout.historyId)].notes =
                                activeWorkout.notes,
                            ![FindIndex(workoutHistory, activeWorkout.historyId)].exercises =
                                [k \in 1..Len(activeWorkout.exercises) |->
                                    [exerciseId |-> activeWorkout.exercises[k].exerciseId,
                                     sets |-> activeWorkout.exercises[k].sets]]]
                   ELSE workoutHistory
            /\ stopWorkoutTimer
            /\ viewOpen' = FALSE
            /\ lastOp' = "discardWorkout"
       ELSE /\ UNCHANGED <<activeWorkout, workoutHistory, viewOpen, workoutDurationInterval>>
            /\ lastOp' = "discardWorkout:declined"
    /\ UNCHANGED <<dataVars, workoutStartTime, restVars, now>>
    /\ IF lastOp' = "discardWorkout" THEN saveState ELSE noSave

discardWorkout(ok) ==
    /\ Logging
    /\ IF ok
       THEN /\ activeWorkout' = NoWorkout
            /\ stopWorkoutTimer
            /\ viewOpen' = FALSE
            /\ lastOp' = "discardWorkout"
       ELSE /\ UNCHANGED <<activeWorkout, viewOpen, workoutDurationInterval>>
            /\ lastOp' = "discardWorkout:declined"
    /\ UNCHANGED <<dataVars, workoutHistory, workoutStartTime, restVars, now>>
    /\ IF lastOp' = "discardWorkout" THEN saveState ELSE noSave

\* mutant: the new record does not take the session's notes
RecordAt_noNotes(aw, t) ==
    [id |-> t,
     date |-> t,
     programId |-> IF TruthyNum(aw.programId) THEN aw.programId ELSE Null,
     workoutIndex |-> aw.workoutIndex,
     week |-> IF TruthyNum(aw.week) THEN aw.week ELSE 1,
     name |-> aw.name,
     exercises |-> completedExercises(aw),
     notes |-> ""]

\* the record finishWorkout() pushes for a session that is not an edit, at
\* clock reading t: id is Date.now(), date is new Date().toISOString()
RecordAt(aw, t) ==
    [id |-> t,
     date |-> t,
     programId |-> IF TruthyNum(aw.programId) THEN aw.programId ELSE Null,
     workoutIndex |-> aw.workoutIndex,
     week |-> IF TruthyNum(aw.week) THEN aw.week ELSE 1,
     name |-> aw.name,
     exercises |-> completedExercises(aw),
     notes |-> IF TruthyStr(aw.notes) THEN aw.notes ELSE ""]

\* mutant: the finish of an edit appends a record like any other finish
CommitHistory_appends(aw, history) == Append(history, RecordAt(aw, now))

\* mutant: the finish of an edit stamps the record it overwrites anew
CommitHistory_freshStamp(aw, history) ==
    IF TruthyNum(aw.historyId)
    THEN LET index == FindIndex(history, aw.historyId)
         IN IF index # 0
            THEN [history EXCEPT ![index].exercises = completedExercises(aw),
                                 ![index].notes = IF TruthyStr(aw.notes) THEN aw.notes ELSE "",
                                 ![index].id = now,
                                 ![index].date = now]
            ELSE history
    ELSE Append(history, RecordAt(aw, now))

\* state.workoutHistory after the commit part of finishWorkout() (lines 1145-1163)
CommitHistory(aw, history) ==
    IF TruthyNum(aw.historyId)
    THEN LET index == FindIndex(history, aw.historyId)
         IN IF index # 0
            THEN [history EXCEPT ![index].exercises = completedExercises(aw),
                                 ![index].notes = IF TruthyStr(aw.notes) THEN aw.notes ELSE ""]
            ELSE history
    ELSE Append(history, RecordAt(aw, now))

\* mutant: the empty finish clears the session like a successful one
finishWorkout_clearsOnEmpty ==
    /\ Logging
    /\ IF Len(completedExercises(activeWorkout)) = 0
       THEN /\ lastOp' = "finishWorkout:empty"
            /\ activeWorkout' = NoWorkout
            /\ stopWorkoutTimer
            /\ viewOpen' = FALSE
            /\ UNCHANGED <<workoutHistory, workoutStartTime>>
       ELSE /\ workoutHistory' = CommitHistory(activeWorkout, workoutHistory)
            /\ activeWorkout' = NoWorkout
            /\ stopWorkoutTimer
            /\ viewOpen' = FALSE
            /\ lastOp' = "finishWorkout"
            /\ UNCHANGED workoutStartTime
    /\ UNCHANGED <<dataVars, restVars, now>>
    /\ IF lastOp' = "finishWorkout" THEN saveState ELSE noSave

finishWorkout ==
    /\ Logging
    /\ IF Len(completedExercises(activeWorkout)) = 0
       THEN /\ lastOp' = "finishWorkout:empty"
            /\ UNCHANGED <<sessionVars, durationVars>>
       ELSE /\ workoutHistory' = CommitHistory(activeWorkout, workoutHistory)
            /\ activeWorkout' = NoWorkout
            /\ stopWorkoutTimer
            /\ viewOpen' = FALSE
            /\ lastOp' = "finishWorkout"
            /\ UNCHANGED workoutStartTime
    /\ UNCHANGED <<dataVars, restVars, now>>
    /\ IF lastOp' = "finishWorkout" THEN saveState ELSE noSave

\* ------------------------------------------------------ history and catalog
deleteHistoryWorkout(id, ok) ==
    /\ \E k \in 1..Len(workoutHistory) : workoutHistory[k].id = id
    /\ IF ok
       THEN /\ workoutHistory' = FilterSeq(workoutHistory, id)
            /\ lastOp' = "deleteHistoryWorkout"
       ELSE /\ UNCHANGED workoutHistory
            /\ lastOp' = "deleteHistoryWorkout:declined"
    /\ UNCHANGED <<dataVars, activeWorkout, viewOpen, durationVars, restVars, now>>
    /\ IF lastOp' = "deleteHistoryWorkout" THEN saveState ELSE noSave

\* state.activeWorkout = deepClone(record); state.activeWorkout.historyId = id
EditSession(record, id) == [deepClone(record) EXCEPT !.historyId = id]

editHistoryWorkout(id) ==
    /\ FindIndex(workoutHistory, id) # 0
    /\ OpenView(EditSession(workoutHistory[FindIndex(workoutHistory, id)], id))
    /\ lastOp' = "editHistoryWorkout"
    /\ UNCHANGED <<catalogVars, workoutHistory, restVars, now>>
    /\ saveState

\* mutant: the deletion also takes the exercise out of the session in progress
deleteExercise_cascades(id, ok) ==
    /\ \E k \in 1..Len(exercises) : exercises[k].id = id
    /\ IF ok
       THEN /\ exercises' = FilterSeq(exercises, id)
            /\ activeWorkout' =
                   IF activeWorkout = NoWorkout THEN NoWorkout
                   ELSE [activeWorkout EXCEPT !.exercises =
                            SelectSeq(@, LAMBDA e : e.exerciseId # id)]
            /\ lastOp' = "deleteExercise"
       ELSE /\ UNCHANGED <<exercises, activeWorkout>>
            /\ lastOp' = "deleteExercise:declined"
    /\ UNCHANGED <<programs, standaloneWorkouts, currentWeek, currentProgram, workoutHistory, viewOpen,
                   durationVars, restVars, now>>
    /\ IF lastOp' = "deleteExercise" THEN saveState ELSE noSave

deleteExercise(id, ok) ==
    /\ \E k \in 1..Len(exercises) : exercises[k].id = id
    /\ IF ok
       THEN /\ exercises' = FilterSeq(exercises, id)
            /\ lastOp' = "deleteExercise"
       ELSE /\ UNCHANGED exercises
            /\ lastOp' = "deleteExercise:declined"
    /\ UNCHANGED <<programs, standaloneWorkouts, currentWeek, currentProgram, sessionVars, durationVars, restVars, now>>
    /\ IF lastOp' = "deleteExercise" THEN saveState ELSE noSave

\* --------------------------------------------------------------- rest timer
\* window.skipRestTimer: clearInterval reaches only the countdown the handle names
skipRestTimer ==
    /\ restTimerInterval = LiveInterval
    /\ restTimerInterval' = NoInterval
    /\ lastOp' = "skipRestTimer"
    /\ UNCHANGED <<dataVars, sessionVars, durationVars, leakedIntervals,
                   restTimerRemaining, restTimerTotal, restTimerExerciseName, now>>
    /\ noSave

\* one firing of a live rest countdown, the current one or a leaked one
runRestTimerTick ==
    /\ restTimerInterval = LiveInterval \/ leakedIntervals > 0
    /\ restTimerRemaining' = restTimerRemaining - 1
    /\ IF restTimerRemaining - 1 <= 0
       THEN /\ restTimerInterval' = NoInterval
            /\ lastOp' = "runRestTimerTick:expired"
       ELSE /\ UNCHANGED restTimerInterval
            /\ lastOp' = "runRestTimerTick"
    /\ UNCHANGED <<dataVars, sessionVars, durationVars, leakedIntervals, restTimerTotal,
                   restTimerExerciseName, now>>
    /\ noSave

\* Math.max(a, b)
Max(a, b) == IF a >= b THEN a ELSE b

\* mutant: total stays what startRestTimer() made it
adjustRestTimer_totalFixed(delta) ==
    /\ restTimerInterval = LiveInterval
    /\ restTimerRemaining' = Max(1, restTimerRemaining + delta)
    /\ lastOp' = "adjustRestTimer"
    /\ UNCHANGED <<dataVars, sessionVars, durationVars, restTimerInterval, leakedIntervals,
                   restTimerTotal, restTimerExerciseName, now>>
    /\ noSave

\* mutant: total follows remaining down as well as up
adjustRestTimer_totalFollows(delta) ==
    /\ restTimerInterval = LiveInterval
    /\ restTimerRemaining' = Max(1, restTimerRemaining + delta)
    /\ restTimerTotal' = Max(1, restTimerRemaining + delta)
    /\ lastOp' = "adjustRestTimer"
    /\ UNCHANGED <<dataVars, sessionVars, durationVars, restTimerInterval, leakedIntervals,
                   restTimerExerciseName, now>>
    /\ noSave

\* window.adjustRestTimer, from the buttons of the rest-timer overlay, which
\* is shown from startRestTimer() to skipRestTimer()
adjustRestTimer(delta) ==
    /\ restTimerInterval = LiveInterval
    /\ restTimerRemaining' = Max(1, restTimerRemaining + delta)
    /\ restTimerTotal' = Max(restTimerTotal, Max(1, restTimerRemaining + delta))
    /\ lastOp' = "adjustRestTimer"
    /\ UNCHANGED <<dataVars, sessionVars, durationVars, restTimerInterval, leakedIntervals,
                   restTimerExerciseName, now>>
    /\ noSave

\* the rest countdowns that are live: the one the handle names and the lost ones
LiveCountdowns == (IF restTimerInterval = LiveInterval THEN 1 ELSE 0) + leakedIntervals

\* -------------------------------------------------------- the debounce timer
\* the callback debounce() handed to setTimeout: saveState() on the state as it
\* is when the timeout fires
\* mutant: the timeout writes the session into the stored document and leaves
\* the other fields as they were stored
runSaveTimeout_sessionOnly ==
    /\ saveTimeouts > 0
    /\ saveTimeouts' = saveTimeouts - 1
    /\ issueSave([name \in DOMAIN stored \cup {"activeWorkout"} |->
                     IF name = "activeWorkout" THEN activeWorkout ELSE stored[name]], {})
    /\ lastOp' = "runSaveTimeout"
    /\ UNCHANGED <<dataVars, sessionVars, durationVars, restVars, now, storageUp, storageSlow>>

runSaveTimeout ==
    /\ saveTimeouts > 0
    /\ saveTimeouts' = saveTimeouts - 1
    /\ issueSave(stateToSave, {})
    /\ lastOp' = "runSaveTimeout"
    /\ UNCHANGED <<dataVars, sessionVars, durationVars, restVars, now, storageUp, storageSlow>>

\* ---------------------------------------------------------- last performance
\* Number(text) of the digit-only texts the weight input lets through
Number(text) == CASE text = "" -> 0
                  [] text = "5" -> 5
                  [] text = "10" -> 10
                  [] text = "135" -> 135

\* workout.exercises.find(e => e.exerciseId === exerciseId): the first such
\* entry, NoWorkout standing for undefined
FindExercise(workout, exerciseId) ==
    LET hits == {k \in 1..Len(workout.exercises) : workout.exercises[k].exerciseId = exerciseId}
    IN IF hits = {} THEN NoWorkout
       ELSE workout.exercises[CHOOSE k \in hits : \A j \in hits : k <= j]

\* last.sets.reduce((max, curr) => Number(curr.weight) > Number(max.weight)
\*                                  ? curr : max, last.sets[0])
RECURSIVE ReduceMax(_, _, _)
ReduceMax(sets, i, max) ==
    IF i > Len(sets) THEN max
    ELSE ReduceMax(sets, i + 1,
                   IF Number(sets[i].weight) > Number(max.weight) THEN sets[i] ELSE max)

\* getLastExercisePerformance(exerciseId) on the history: NoWorkout is null
getLastExercisePerformance(history, exerciseId) ==
    LET matches == {k \in 1..Len(history) : FindExercise(history[k], exerciseId) # NoWorkout}
        \* matches.sort((a, b) => new Date(b.date) - new Date(a.date))[0]: the
        \* sort is stable, so of the latest matches the first pushed comes first
        last == CHOOSE k \in matches :
                    \A j \in matches : \/ history[j].date < history[k].date
                                       \/ (history[j].date = history[k].date /\ k <= j)
    IN IF matches = {} THEN NoWorkout
       ELSE LET sets == FindExercise(history[last], exerciseId).sets
                bestSet == ReduceMax(sets, 1, sets[1])
            IN [weight |-> bestSet.weight, reps |-> bestSet.reps]

\* renderActiveExercises() asks for the last performance of an exercise
showLastPerformance(exerciseId) ==
    /\ lastPerf' = [exerciseId |-> exerciseId,
                    result |-> getLastExercisePerformance(workoutHistory, exerciseId)]
    /\ lastOp' = "getLastExercisePerformance"
    /\ UNCHANGED <<dataVars, sessionVars, durationVars, restVars, now>>
    /\ noSave

\* ------------------------------------------------------- import and reload
\* the field of a loaded document, or the default of `let state` where the
\* document has no such field: state = {...state, ...savedState}
Field(document, name, default) ==
    IF name \in DOMAIN document THEN document[name] ELSE default

\* location.reload() followed by initializeApp() on the stored document. The
\* page starts afresh: no view, no interval, no timeout. The catalogs of the
\* model stand for catalogs of at least 50 named entries, which initializeApp
\* keeps as they are.
reload(savedState) ==
    /\ exercises' = Field(savedState, "exercises", InitExercises)
    /\ programs' = Field(savedState, "programs", <<>>)
    /\ standaloneWorkouts' = Field(savedState, "standaloneWorkouts", <<>>)
    /\ currentWeek' = Field(savedState, "currentWeek", 1)
    /\ currentProgram' = Field(savedState, "currentProgram", Null)
    /\ workoutHistory' = Field(savedState, "workoutHistory", <<>>)
    /\ activeWorkout' = Field(savedState, "activeWorkout", NoWorkout)
    /\ viewOpen' = FALSE
    /\ workoutDurationInterval' = NoInterval
    /\ workoutStartTime' = Null
    /\ restTimerInterval' = NoInterval
    /\ leakedIntervals' = 0
    /\ restTimerRemaining' = 0
    /\ restTimerTotal' = 0
    /\ restTimerExerciseName' = ""
    /\ saveTimeouts' = 0

\* the files the user may pick: text that is not JSON, and JSON texts with
\* the value JSON.parse() gives for them
OtherDocument ==
    [exercises |-> <<InitExercises[2]>>, programs |-> <<>>,
     standaloneWorkouts |-> InitStandalone, currentProgram |-> Null, currentWeek |-> 2,
     workoutHistory |-> <<Record2>>, activeWorkout |-> NoWorkout]

ImportFiles ==
    {[json |-> FALSE],
     [json |-> TRUE, value |-> NoWorkout],
     [json |-> TRUE, value |-> [workoutHistory |-> <<Record2>>]],
     [json |-> TRUE, value |-> [exercises |-> InitExercises]],
     [json |-> TRUE, value |-> OtherDocument]}

\* importedState && importedState.exercises
HasExercises(importedState) ==
    importedState # NoWorkout /\ "exercises" \in DOMAIN importedState

\* mutant: the fields the file lacks are kept from the stored document
importData_merges(file) ==
    IF ~file.json
    THEN /\ lastOp' = "importData:unparsable"
         /\ lastSave' = "none"
         /\ UNCHANGED <<dataVars, sessionVars, durationVars, restVars, now,
                        stored, saveTimeouts, storageUp, storageSlow, inFlight>>
    ELSE IF ~HasExercises(file.value)
    THEN /\ lastOp' = "importData:invalid"
         /\ lastSave' = "none"
         /\ UNCHANGED <<dataVars, sessionVars, durationVars, restVars, now,
                        stored, saveTimeouts, storageUp, storageSlow, inFlight>>
    ELSE IF ~storageUp
    THEN /\ lastOp' = "importData:failed"
         /\ lastSave' = "caught"
         /\ UNCHANGED <<dataVars, sessionVars, durationVars, restVars, now,
                        stored, saveTimeouts, storageUp, storageSlow, inFlight>>
    ELSE LET merged == [name \in DOMAIN stored \cup DOMAIN file.value |->
                           Field(file.value, name, stored[name])]
         IN /\ stored' = dbSave(merged)
            /\ reload(merged)
            /\ lastOp' = "importData"
            /\ lastSave' = "saved"
            /\ inFlight' = <<>>
         /\ UNCHANGED <<now, storageUp, storageSlow>>

\* reader.onload of importData(event)
importData(file) ==
    IF ~file.json
    THEN /\ lastOp' = "importData:unparsable"
         /\ lastSave' = "none"
         /\ UNCHANGED <<dataVars, sessionVars, durationVars, restVars, now,
                        stored, saveTimeouts, storageUp, storageSlow, inFlight>>
    ELSE IF ~HasExercises(file.value)
    THEN /\ lastOp' = "importData:invalid"
         /\ lastSave' = "none"
         /\ UNCHANGED <<dataVars, sessionVars, durationVars, restVars, now,
                        stored, saveTimeouts, storageUp, storageSlow, inFlight>>
    ELSE IF ~storageUp
    THEN /\ lastOp' = "importData:failed"
         /\ lastSave' = "caught"
         /\ UNCHANGED <<dataVars, sessionVars, durationVars, restVars, now,
                        stored, saveTimeouts, storageUp, storageSlow, inFlight>>
    ELSE /\ stored' = dbSave(file.value)
         /\ reload(file.value)
         /\ lastOp' = "importData"
         /\ lastSave' = "saved"
         /\ inFlight' = <<>>
         /\ UNCHANGED <<now, storageUp, storageSlow>>

\* ------------------------------------------------------------- the store
\* store.put() starts to fail (request.onerror) or to succeed again
storageChanges ==
    /\ storageUp' = ~storageUp
    /\ lastOp' = "storageChanges"
    /\ lastSave' = "none"
    /\ UNCHANGED <<dataVars, sessionVars, durationVars, restVars, now, stored, saveTimeouts,
                   storageSlow, inFlight>>

\* mutant: the puts under way complete in any order
completeSave_anyOrder ==
    /\ inFlight # <<>>
    /\ \E k \in 1..Len(inFlight) :
           /\ stored' = dbSave(Content(inFlight[k]))
           /\ inFlight' = SubSeq(inFlight, 1, k - 1) \o SubSeq(inFlight, k + 1, Len(inFlight))
           /\ lastSave' = IF ~storageUp THEN "unhandledrejection"
                          ELSE IF inFlight[k].behind > 0 THEN "saved behind another" ELSE "saved"
    /\ lastOp' = "completeSave"
    /\ UNCHANGED <<dataVars, sessionVars, durationVars, restVars, now, saveTimeouts,
                   storageUp, storageSlow>>

\* the put of the oldest save under way runs and completes: the connections
\* db.open() asks for are granted in the order asked, and the readwrite
\* transactions on the one store run in the order they were created
completeSave ==
    /\ inFlight # <<>>
    /\ stored' = dbSave(Content(Head(inFlight)))
    /\ inFlight' = Tail(inFlight)
    /\ lastSave' = IF ~storageUp THEN "unhandledrejection"
                   ELSE IF Head(inFlight).behind > 0 THEN "saved behind another" ELSE "saved"
    /\ lastOp' = "completeSave"
    /\ UNCHANGED <<dataVars, sessionVars, durationVars, restVars, now, saveTimeouts,
                   storageUp, storageSlow>>

\* from now on a put may take longer than the user takes for the next action
storageSlows ==
    /\ ~storageSlow
    /\ storageSlow' = TRUE
    /\ lastOp' = "storageSlows"
    /\ lastSave' = "none"
    /\ UNCHANGED <<dataVars, sessionVars, durationVars, restVars, now, stored, saveTimeouts,
                   storageUp, inFlight>>

\* ------------------------------------------------------------------- clock
AdvanceClock ==
    /\ now' = now + 1
    /\ lastOp' = "AdvanceClock"
    /\ UNCHANGED <<dataVars, sessionVars, durationVars, restVars>>
    /\ noSave

\* ------------------------------------------------------------ specification
ProgramIds == {programs[p].id : p \in 1..Len(programs)}
StandaloneIds == {standaloneWorkouts[p].id : p \in 1..Len(standaloneWorkouts)}
HistoryIds == {workoutHistory[k].id : k \in 1..Len(workoutHistory)}
CatalogIds == {exercises[k].id : k \in 1..Len(exercises)}
ExerciseIndexes == IF activeWorkout = NoWorkout THEN {} ELSE 1..Len(activeWorkout.exercises)
SetIndexes(exIndex) == 1..Len(activeWorkout.exercises[exIndex].sets)

\* a run of the model is MaxSteps operations long
Step(operation) ==
    /\ steps < MaxSteps
    /\ steps' = steps + 1
    /\ operation
    /\ UNCHANGED <<lastPerf, pauseVars>>

Next ==
    \/ \E programId \in ProgramIds, index \in 1..1, ok \in BOOLEAN :
           Step(startProgramWorkout(programId, index, ok))
    \/ \E id \in StandaloneIds \cup {Undef}, ok \in BOOLEAN : Step(startStandaloneWorkout(id, ok))
    \/ \E ok \in BOOLEAN, name \in NameInputs \cup {UndefStr} : Step(startQuickWorkout(ok, name))
    \/ Step(openActiveWorkout)
    \/ Step(closeActiveWorkout)
    \/ \E exIndex \in ExerciseIndexes, val \in RestInputs :
           Step(updateActiveExerciseRest(exIndex, val))
    \/ \E exIndex \in ExerciseIndexes : \E setIndex \in SetIndexes(exIndex), value \in WeightInputs :
           Step(updateActiveSet(exIndex, setIndex, "weight", value))
    \/ \E exIndex \in ExerciseIndexes : \E setIndex \in SetIndexes(exIndex), value \in RepsInputs :
           Step(updateActiveSet(exIndex, setIndex, "reps", value))
    \/ \E exIndex \in ExerciseIndexes : \E setIndex \in SetIndexes(exIndex) :
           Step(toggleSetComplete(exIndex, setIndex))
    \/ \E value \in NotesInputs : Step(updateNotes(value))
    \/ \E exIndex \in ExerciseIndexes : Step(addSetToActive(exIndex))
    \/ \E exIndex \in ExerciseIndexes, ok \in BOOLEAN : Step(removeActiveExercise(exIndex, ok))
    \/ \E k \in 1..Len(exercises) : Step(selectExercise(k))
    \/ \E ok \in BOOLEAN : Step(discardWorkout(ok))
    \/ Step(finishWorkout)
    \/ \E id \in HistoryIds, ok \in BOOLEAN : Step(deleteHistoryWorkout(id, ok))
    \/ \E id \in HistoryIds : Step(editHistoryWorkout(id))
    \/ \E id \in CatalogIds, ok \in BOOLEAN : Step(deleteExercise(id, ok))
    \/ Step(skipRestTimer)
    \/ Step(runRestTimerTick)
    \/ \E delta \in DeltaInputs : Step(adjustRestTimer(delta))
    \/ Step(runSaveTimeout)
    \/ Step(AdvanceClock)

Spec == Init /\ [][Next]_vars

\* ------------------------------------------- the timers, in longer runs
\* The loaded documents with a program workout in progress and no history,
\* and the operations that start, stop or read a timer, MaxRestSteps of them.
RestInit ==
    /\ Init
    /\ workoutHistory = <<>>
    /\ activeWorkout \in ProgramSessions

RestStep(operation) ==
    /\ steps < MaxRestSteps
    /\ steps' = steps + 1
    /\ operation
    /\ UNCHANGED <<lastPerf, pauseVars>>

RestNext ==
    \/ RestStep(openActiveWorkout)
    \/ RestStep(closeActiveWorkout)
    \/ \E exIndex \in ExerciseIndexes, val \in RestInputs :
           RestStep(updateActiveExerciseRest(exIndex, val))
    \/ \E exIndex \in ExerciseIndexes : \E setIndex \in SetIndexes(exIndex) :
           RestStep(toggleSetComplete(exIndex, setIndex))
    \/ \E ok \in BOOLEAN : RestStep(discardWorkout(ok))
    \/ RestStep(skipRestTimer)
    \/ RestStep(runRestTimerTick)
    \/ \E delta \in DeltaInputs : RestStep(adjustRestTimer(delta))
    \/ RestStep(AdvanceClock)

RestSpec == RestInit /\ [][RestNext]_vars

\* --------------------------------------------- persistence, in longer runs
\* The loaded documents with one history record and a standalone workout in
\* progress; logging, the debounce timer, a store that may fail, and import,
\* MaxSaveSteps of them.
SaveInit ==
    /\ Init
    /\ workoutHistory = <<Record1>>
    /\ activeWorkout \in StandaloneSessions

SaveStep(operation) ==
    /\ steps < MaxSaveSteps
    /\ steps' = steps + 1
    /\ operation
    /\ UNCHANGED <<lastPerf, pauseVars>>

SaveNext ==
    \/ SaveStep(openActiveWorkout)
    \/ \E value \in WeightInputs : SaveStep(updateActiveSet(1, 1, "weight", value))
    \/ \E value \in RepsInputs : SaveStep(updateActiveSet(1, 1, "reps", value))
    \/ \E value \in NotesInputs : SaveStep(updateNotes(value))
    \/ SaveStep(toggleSetComplete(1, 1))
    \/ SaveStep(finishWorkout)
    \/ \E ok \in BOOLEAN : SaveStep(discardWorkout(ok))
    \/ \E file \in ImportFiles : SaveStep(importData(file))
    \/ SaveStep(runSaveTimeout)
    \/ SaveStep(storageChanges)

SaveSpec == SaveInit /\ [][SaveNext]_vars

\* ------------------------------------------------- the catalog on reload
\* the number of entries initializeApp() asks of a catalog
MinCatalog == 50

\* the number of entries of the built-in list
BuiltInCount == 83

\* The built-in list of initializeApp(): the two entries the templates refer
\* to, and the others, which the model tells apart by id only.
BuiltInExercises ==
    [k \in 1..BuiltInCount |->
        IF k <= Len(InitExercises) THEN InitExercises[k]
        ELSE [id |-> k, name |-> "Built-in", restTime |-> 1]]

\* Date.now() as the id of a new exercise or program: a number beyond the
\* built-in ids
DateNowId == BuiltInCount + now

\* the names typed into the Add Exercise dialog
ExerciseNameInputs == {"", "Zercher Squat"}

\* saveExercise(), the rest field left empty
saveExercise(name) ==
    /\ IF name = ""
       THEN /\ UNCHANGED exercises
            /\ lastOp' = "saveExercise:invalid"
       ELSE /\ exercises' = Append(exercises, [id |-> DateNowId, name |-> name,
                                               restTime |-> DefaultRest])
            /\ lastOp' = "saveExercise"
    /\ UNCHANGED <<programs, standaloneWorkouts, currentWeek, currentProgram, sessionVars, durationVars, restVars, now>>
    /\ IF lastOp' = "saveExercise" THEN saveState ELSE noSave

\* !state.exercises || state.exercises.length < 50 || state.exercises.some(e => e.name === '')
NeedsBuiltIn(catalog) ==
    \/ Len(catalog) < MinCatalog
    \/ \E k \in 1..Len(catalog) : catalog[k].name = ""

\* The page is loaded anew: initializeApp() on the stored document. A catalog
\* that is short or has an unnamed entry is replaced by the built-in list, and
\* the state is saved; the save is awaited inside the try block.
initializeApp ==
    /\ inFlight = <<>>
    /\ exercises' = IF NeedsBuiltIn(Field(stored, "exercises", <<>>))
                    THEN BuiltInExercises ELSE stored.exercises
    /\ programs' = Field(stored, "programs", <<>>)
    /\ standaloneWorkouts' = Field(stored, "standaloneWorkouts", <<>>)
    /\ currentWeek' = Field(stored, "currentWeek", 1)
    /\ currentProgram' = Field(stored, "currentProgram", Null)
    /\ workoutHistory' = Field(stored, "workoutHistory", <<>>)
    /\ activeWorkout' = Field(stored, "activeWorkout", NoWorkout)
    /\ viewOpen' = FALSE
    /\ workoutDurationInterval' = NoInterval
    /\ workoutStartTime' = Null
    /\ restTimerInterval' = NoInterval
    /\ leakedIntervals' = 0
    /\ restTimerRemaining' = 0
    /\ restTimerTotal' = 0
    /\ restTimerExerciseName' = ""
    /\ saveTimeouts' = 0
    /\ lastOp' = "initializeApp"
    /\ IF NeedsBuiltIn(Field(stored, "exercises", <<>>))
       THEN /\ stored' = dbSave(stateToSave')
            /\ lastSave' = IF storageUp THEN "saved" ELSE "caught"
       ELSE /\ stored' = stored
            /\ lastSave' = "none"
    /\ UNCHANGED <<now, storageUp, storageSlow, inFlight>>

\* Catalogs as they are stored after the user has deleted built-in exercises:
\* the whole list, and what is left of it one and two deletions above the
\* number initializeApp() asks for.
StoredCatalogs ==
    {SubSeq(BuiltInExercises, 1, n) : n \in {MinCatalog, MinCatalog + 1, BuiltInCount}}

CatalogInit ==
    \E catalog \in StoredCatalogs, history \in LoadedHistories :
        \E session \in {NoWorkout} \cup StandaloneSessions :
            LoadedWith(catalog, history, session)

CatalogStep(operation) ==
    /\ steps < MaxCatalogSteps
    /\ steps' = steps + 1
    /\ operation
    /\ UNCHANGED <<lastPerf, pauseVars>>

CatalogNext ==
    \/ \E ok \in BOOLEAN : CatalogStep(deleteExercise(exercises[Len(exercises)].id, ok))
    \/ \E name \in ExerciseNameInputs : CatalogStep(saveExercise(name))
    \/ CatalogStep(openActiveWorkout)
    \/ CatalogStep(toggleSetComplete(1, 1))
    \/ CatalogStep(initializeApp)

CatalogSpec == CatalogInit /\ [][CatalogNext]_vars

\* ------------------------------------------------ the week of the program
\* window.selectProgram(id), from the program list of the library
selectProgram(id) ==
    /\ id \in ProgramIds
    /\ currentProgram' = id
    /\ currentWeek' = 1
    /\ lastOp' = "selectProgram"
    /\ UNCHANGED <<exercises, templateVars, sessionVars, durationVars, restVars, now>>
    /\ saveState

\* window.advanceWeek(); ok is the answer to the confirm() of the last week
advanceWeek(ok) ==
    /\ IF FindIndex(programs, currentProgram) = 0
       THEN /\ UNCHANGED currentWeek
            /\ lastOp' = "advanceWeek:noProgram"
       ELSE IF currentWeek < programs[FindIndex(programs, currentProgram)].weeks
       THEN /\ currentWeek' = currentWeek + 1
            /\ lastOp' = "advanceWeek"
       ELSE IF ok
       THEN /\ currentWeek' = 1
            /\ lastOp' = "advanceWeek:reset"
       ELSE /\ UNCHANGED currentWeek
            /\ lastOp' = "advanceWeek:declined"
    /\ UNCHANGED <<exercises, currentProgram, templateVars, sessionVars, durationVars, restVars, now>>
    /\ IF lastOp' \in {"advanceWeek", "advanceWeek:reset"} THEN saveState ELSE noSave

\* window.retreatWeek()
retreatWeek ==
    /\ IF currentWeek > 1
       THEN /\ currentWeek' = currentWeek - 1
            /\ lastOp' = "retreatWeek"
       ELSE /\ UNCHANGED currentWeek
            /\ lastOp' = "retreatWeek:first"
    /\ UNCHANGED <<exercises, currentProgram, templateVars, sessionVars, durationVars, restVars, now>>
    /\ IF lastOp' = "retreatWeek" THEN saveState ELSE noSave

\* what is typed into the weeks field of the program builder
WeeksInputs == {"2", "5"}

\* openProgramBuilder(programToEdit): a copy of the program, or an empty
\* program of 4 weeks when editing is Null
EditingProgram(editing) ==
    IF editing = Null
    THEN [id |-> Null, name |-> "", weeks |-> 4, workouts |-> <<>>]
    ELSE programs[FindIndex(programs, editing)]

\* saveProgram() in the builder that editProgram(editing), or Create Program
\* when editing is Null, has opened
saveProgram(editing, nameInput, weeksInput) ==
    /\ editing = Null \/ editing \in ProgramIds
    /\ IF Trim(nameInput) = ""
       THEN /\ UNCHANGED programs
            /\ lastOp' = "saveProgram:invalid"
       ELSE LET edited == [EditingProgram(editing) EXCEPT !.name = Trim(nameInput),
                                                          !.weeks = ParseInt(weeksInput)]
            IN /\ programs' = IF editing # Null
                              THEN [programs EXCEPT ![FindIndex(programs, editing)] = edited]
                              ELSE Append(programs, [edited EXCEPT !.id = DateNowId])
               /\ lastOp' = "saveProgram"
    /\ UNCHANGED <<catalogVars, standaloneWorkouts, sessionVars, durationVars, restVars, now>>
    /\ IF lastOp' = "saveProgram" THEN saveState ELSE noSave

WeekInit ==
    \E history \in LoadedHistories : Loaded(history, NoWorkout)

WeekStep(operation) ==
    /\ steps < MaxWeekSteps
    /\ steps' = steps + 1
    /\ operation
    /\ UNCHANGED <<lastPerf, pauseVars>>

WeekNext ==
    \/ \E id \in ProgramIds : WeekStep(selectProgram(id))
    \/ \E ok \in BOOLEAN : WeekStep(advanceWeek(ok))
    \/ WeekStep(retreatWeek)
    \/ \E editing \in {Null} \cup ProgramIds, nameInput \in NameInputs, weeksInput \in WeeksInputs :
           WeekStep(saveProgram(editing, nameInput, weeksInput))

WeekSpec == WeekInit /\ [][WeekNext]_vars

\* ------------------------------------- pause tracking of the older variant
\* The second copy of the session code (script.js from line 2065) keeps
\* isPaused, lastPauseTime and totalPausedTime in the session and records
\* durationSeconds at the finish. Times are Date.now() in milliseconds.

\* startProgramWorkout(index): the new session, saved, and the view opened;
\* ok is the answer to the confirm() shown when a workout is in progress
olderStartProgramWorkout(ok) ==
    /\ IF trackedWorkout # NoWorkout /\ ~ok
       THEN /\ UNCHANGED <<trackedWorkout, trackedViewOpen, closedMillis>>
            /\ lastOp' = "older:startProgramWorkout:declined"
       ELSE /\ trackedWorkout' = [startTime |-> now, isPaused |-> FALSE,
                                  totalPausedTime |-> 0, lastPauseTime |-> Null]
            /\ trackedViewOpen' = TRUE
            /\ closedMillis' = 0
            /\ lastOp' = "older:startProgramWorkout"
    /\ UNCHANGED <<durationSeconds, now>>

\* openActiveWorkout(), from the resume card
olderOpenActiveWorkout ==
    /\ trackedWorkout # NoWorkout
    /\ ~trackedViewOpen
    /\ trackedWorkout' =
           IF trackedWorkout.isPaused
           THEN [trackedWorkout EXCEPT
                    !.isPaused = FALSE,
                    !.totalPausedTime = IF trackedWorkout.lastPauseTime # Null
                                        THEN @ + (now - trackedWorkout.lastPauseTime) ELSE @,
                    !.lastPauseTime = Null]
           ELSE trackedWorkout
    /\ trackedViewOpen' = TRUE
    /\ lastOp' = "older:openActiveWorkout"
    /\ UNCHANGED <<durationSeconds, closedMillis, now>>

\* closeActiveWorkout(), the close button of the view
olderCloseActiveWorkout ==
    /\ trackedViewOpen
    /\ trackedWorkout' =
           IF trackedWorkout # NoWorkout /\ ~trackedWorkout.isPaused
           THEN [trackedWorkout EXCEPT !.isPaused = TRUE, !.lastPauseTime = now]
           ELSE trackedWorkout
    /\ trackedViewOpen' = FALSE
    /\ lastOp' = "older:closeActiveWorkout"
    /\ UNCHANGED <<durationSeconds, closedMillis, now>>

\* Math.floor(Math.max(0, totalElapsed - totalPausedTime) / 1000)
DurationSeconds(totalElapsed, totalPausedTime) ==
    Max(0, totalElapsed - totalPausedTime) \div 1000

\* finishWorkout(), the Finish button of the view; logged tells whether any
\* set qualifies
olderFinishWorkout(logged) ==
    /\ trackedViewOpen
    /\ trackedWorkout # NoWorkout
    /\ IF ~logged
       THEN /\ UNCHANGED <<trackedWorkout, trackedViewOpen, durationSeconds>>
            /\ lastOp' = "older:finishWorkout:empty"
       ELSE LET endTime == now
                totalPausedTime ==
                    IF trackedWorkout.isPaused /\ trackedWorkout.lastPauseTime # Null
                    THEN trackedWorkout.totalPausedTime + (endTime - trackedWorkout.lastPauseTime)
                    ELSE trackedWorkout.totalPausedTime
            IN /\ durationSeconds' = DurationSeconds(endTime - trackedWorkout.startTime,
                                                     totalPausedTime)
               /\ trackedWorkout' = NoWorkout
               /\ trackedViewOpen' = FALSE
               /\ lastOp' = "older:finishWorkout"
    /\ UNCHANGED <<closedMillis, now>>

\* The page is left and loaded again: initializeApp() of the older variant
\* takes the session as it was saved, and no view is open.
olderInitializeApp ==
    /\ trackedViewOpen' = FALSE
    /\ lastOp' = "older:initializeApp"
    /\ UNCHANGED <<trackedWorkout, durationSeconds, closedMillis, now>>

\* the milliseconds that pass between two operations
ClockInputs == {400, 700}

\* time passes
olderAdvanceClock(millis) ==
    /\ now' = now + millis
    /\ closedMillis' = IF trackedWorkout # NoWorkout /\ ~trackedViewOpen
                       THEN closedMillis + millis ELSE closedMillis
    /\ lastOp' = "older:AdvanceClock"
    /\ UNCHANGED <<trackedWorkout, trackedViewOpen, durationSeconds>>

PauseInit == Loaded(<<>>, NoWorkout)

PauseStep(operation) ==
    /\ steps < MaxPauseSteps
    /\ steps' = steps + 1
    /\ operation
    /\ UNCHANGED <<dataVars, sessionVars, durationVars, restVars, saveVars, lastPerf>>

PauseNext ==
    \/ \E ok \in BOOLEAN : PauseStep(olderStartProgramWorkout(ok))
    \/ PauseStep(olderOpenActiveWorkout)
    \/ PauseStep(olderCloseActiveWorkout)
    \/ \E logged \in BOOLEAN : PauseStep(olderFinishWorkout(logged))
    \/ PauseStep(olderInitializeApp)
    \/ \E millis \in ClockInputs : PauseStep(olderAdvanceClock(millis))

PauseSpec == PauseInit /\ [][PauseNext]_vars

\* ------------------------------------------------ saves under way at once
\* A stored session and one record, a store that may become slow, and the
\* operations that save at once or after the debounce delay.
FlightStep(operation) ==
    /\ steps < MaxFlightSteps
    /\ steps' = steps + 1
    /\ operation
    /\ UNCHANGED <<lastPerf, pauseVars>>

FlightNext ==
    \/ FlightStep(storageSlows)
    \/ FlightStep(openActiveWorkout)
    \/ \E value \in WeightInputs : FlightStep(updateActiveSet(1, 1, "weight", value))
    \/ FlightStep(toggleSetComplete(1, 1))
    \/ FlightStep(finishWorkout)
    \/ \E ok \in BOOLEAN : FlightStep(discardWorkout(ok))
    \/ \E id \in HistoryIds, ok \in BOOLEAN : FlightStep(deleteHistoryWorkout(id, ok))
    \/ FlightStep(runSaveTimeout)
    \/ FlightStep(completeSave)

FlightSpec == SaveInit /\ [][FlightNext]_vars

\* ----------------------------------------- the last-performance lookup
\* Histories as a backup file may hold them (importData takes any order of
\* records): up to two records of different dates, each with one or two
\* exercise entries, the same exercise twice included.
PerfSetLists ==
    LET Set(w, r) == [weight |-> w, targetReps |-> "", reps |-> r, completed |-> TRUE]
    IN {<<Set("", "8")>>,
        <<Set("5", "10"), Set("135", "8")>>,
        <<Set("135", "8"), Set("135", "10")>>,
        <<Set("135", "10"), Set("5", "8")>>,
        <<Set("10", "10"), Set("5", "8")>>}

PerfEntries == {[exerciseId |-> id, sets |-> sets] : id \in {1, 2}, sets \in PerfSetLists}

PerfRecords(dates) ==
    {[id |-> date, date |-> date, programId |-> Null, workoutIndex |-> Undef, week |-> 1,
      name |-> "Quick Workout", exercises |-> exs, notes |-> ""] :
        date \in dates,
        exs \in {<<e>> : e \in PerfEntries} \cup {<<e1, e2>> : e1 \in PerfEntries, e2 \in PerfEntries}}

PerfHistories(earlier, later) ==
    {<<>>} \cup {<<r>> : r \in PerfRecords({earlier})}
           \cup {<<r1, r2>> : r1 \in PerfRecords({earlier}), r2 \in PerfRecords({later})}
           \cup {<<r2, r1>> : r1 \in PerfRecords({earlier}), r2 \in PerfRecords({later})}

PerfInit == \E history \in PerfHistories(1, 2) : Loaded(history, NoWorkout)

PerfStep(operation) ==
    /\ steps < MaxPerfSteps
    /\ steps' = steps + 1
    /\ operation
    /\ UNCHANGED pauseVars

PerfNext == \E exerciseId \in {1, 2, 3} : PerfStep(showLastPerformance(exerciseId))

PerfSpec == PerfInit /\ [][PerfNext]_vars

\* --------------------------------------- start and finish, in longer runs
\* The loaded documents with an empty history and a program workout in
\* progress or none; starting, completing sets, finishing, editing and
\* deleting records, and the clock, MaxIdSteps of them.
IdInit ==
    \E session \in {NoWorkout} \cup {aw \in ProgramSessions :
                                         aw.exercises[1].sets[1].weight = ""
                                         /\ aw.exercises[1].sets[2].weight = ""} :
        Loaded(<<>>, session)

IdStep(operation) ==
    /\ steps < MaxIdSteps
    /\ steps' = steps + 1
    /\ operation
    /\ UNCHANGED <<lastPerf, pauseVars>>

IdNext ==
    \/ \E programId \in ProgramIds, ok \in BOOLEAN :
           IdStep(startProgramWorkout(programId, 1, ok))
    \/ IdStep(openActiveWorkout)
    \/ \E exIndex \in ExerciseIndexes : \E setIndex \in SetIndexes(exIndex) :
           IdStep(toggleSetComplete(exIndex, setIndex))
    \/ IdStep(finishWorkout)
    \/ \E id \in HistoryIds : IdStep(editHistoryWorkout(id))
    \/ \E id \in HistoryIds, ok \in BOOLEAN : IdStep(deleteHistoryWorkout(id, ok))
    \/ IdStep(AdvanceClock)

IdSpec == IdInit /\ [][IdNext]_vars

\* ------------------------------------------- resumed sessions, in longer runs
\* The loaded documents with one or two history records and no session; a
\* resume from a record, the edits of the session, close and reopen, and
\* discard, MaxEditSteps of them. Every session of these runs is a resumed one.
EditInit == \E history \in LoadedHistories \ {<<>>} : Loaded(history, NoWorkout)

EditStep(operation) ==
    /\ steps < MaxEditSteps
    /\ steps' = steps + 1
    /\ operation
    /\ UNCHANGED <<lastPerf, pauseVars>>

EditNext ==
    \/ \E id \in HistoryIds : EditStep(editHistoryWorkout(id))
    \/ EditStep(openActiveWorkout)
    \/ EditStep(closeActiveWorkout)
    \/ \E exIndex \in ExerciseIndexes : \E setIndex \in SetIndexes(exIndex), value \in WeightInputs :
           EditStep(updateActiveSet(exIndex, setIndex, "weight", value))
    \/ \E exIndex \in ExerciseIndexes : \E setIndex \in SetIndexes(exIndex) :
           EditStep(toggleSetComplete(exIndex, setIndex))
    \/ \E value \in NotesInputs : EditStep(updateNotes(value))
    \/ \E exIndex \in ExerciseIndexes : EditStep(addSetToActive(exIndex))
    \/ \E exIndex \in ExerciseIndexes, ok \in BOOLEAN : EditStep(removeActiveExercise(exIndex, ok))
    \/ \E k \in 1..Len(exercises) : EditStep(selectExercise(k))
    \/ \E ok \in BOOLEAN : EditStep(discardWorkout(ok))

EditSpec == EditInit /\ [][EditNext]_vars

\* ------------------------------------------------------------------ claims
\* the indexes of the sets that are completed or have both weight and reps
QualifyingIndexes(sets) ==
    {j \in 1..Len(sets) : sets[j].completed = TRUE \/ (sets[j].weight # "" /\ sets[j].reps # "")}

\* the n-th smallest element of a set of indexes
Nth(I, n) == CHOOSE i \in I : Cardinality({j \in I : j < i}) = n - 1

\* the elements of seq at the indexes I, in their original order
Pick(seq, I) == [n \in 1..Cardinality(I) |-> seq[Nth(I, n)]]

KeptExercises(aw) ==
    {k \in 1..Len(aw.exercises) : QualifyingIndexes(aw.exercises[k].sets) # {}}

ExpectedExercises(aw) ==
    [n \in 1..Cardinality(KeptExercises(aw)) |->
        LET ex == aw.exercises[Nth(KeptExercises(aw), n)]
        IN [exerciseId |-> ex.exerciseId, sets |-> Pick(ex.sets, QualifyingIndexes(ex.sets))]]

\* the session is an edit of a history record
IsEdit(aw) == aw.historyId # Undef

\* where a successful finish of aw writes in history: the record being edited,
\* a new last record, or 0 when the record being edited is gone
WrittenIndex(aw, history) ==
    IF IsEdit(aw)
    THEN IF \E k \in 1..Len(history) : history[k].id = aw.historyId
         THEN CHOOSE k \in 1..Len(history) :
                  history[k].id = aw.historyId /\ \A m \in 1..(k - 1) : history[m].id # aw.historyId
         ELSE 0
    ELSE Len(history) + 1

FinishStep == lastOp' \in {"finishWorkout", "finishWorkout:empty"}

C2_EmptyFinishKeepsSession ==
    [][FinishStep /\ KeptExercises(activeWorkout) = {}
       => /\ lastOp' = "finishWorkout:empty"
          /\ activeWorkout' = activeWorkout
          /\ activeWorkout' # NoWorkout
          /\ workoutHistory' = workoutHistory
          /\ workoutDurationInterval' = workoutDurationInterval
          /\ workoutDurationInterval' = LiveInterval]_vars

\* an empty finish has just failed on a session that has sets
C2_Witness ==
    /\ lastOp = "finishWorkout:empty"
    /\ activeWorkout # NoWorkout
    /\ Len(activeWorkout.exercises) > 0
    /\ workoutDurationInterval = LiveInterval

\* a field that is unset on both sides, or equal
SameOrUnset(a, b) == a = b \/ (a \in {Undef, Null} /\ b \in {Undef, Null})

NewFinishStep == lastOp' = "finishWorkout" /\ ~IsEdit(activeWorkout)

\* what every successful finish of a session that is not an edit does, apart
\* from the week of the new record
AppendsOneRecord ==
    /\ Len(workoutHistory') = Len(workoutHistory) + 1
    /\ \A k \in 1..Len(workoutHistory) : workoutHistory'[k] = workoutHistory[k]
    /\ SameOrUnset(workoutHistory'[Len(workoutHistory')].programId, activeWorkout.programId)
    /\ SameOrUnset(workoutHistory'[Len(workoutHistory')].workoutIndex, activeWorkout.workoutIndex)
    /\ workoutHistory'[Len(workoutHistory')].name = activeWorkout.name
    /\ workoutHistory'[Len(workoutHistory')].notes = activeWorkout.notes
    /\ activeWorkout' = NoWorkout

\* C3 as stated: a successful finish of a session that is not an edit appends
\* exactly one record, leaves the earlier records as they were, copies
\* programId, workoutIndex, week, name and notes from the session and clears
\* the session.
C3_AsStated ==
    [][NewFinishStep
       => /\ AppendsOneRecord
          /\ SameOrUnset(workoutHistory'[Len(workoutHistory')].week, activeWorkout.week)]_vars

\* C3 as amended: the same, except that the week of the new record is the
\* session's week when the session has one and 1 otherwise (standalone and
\* freestyle sessions carry no week).
C3_AppendsRecordWeekDefaultsTo1 ==
    [][NewFinishStep
       => /\ AppendsOneRecord
          /\ workoutHistory'[Len(workoutHistory')].week
                 = IF activeWorkout.week # Undef THEN activeWorkout.week ELSE 1]_vars

\* a 'Legs' session was finished on top of two earlier records, which are intact
C3_Witness ==
    /\ lastOp = "finishWorkout"
    /\ Len(workoutHistory) = 3
    /\ workoutHistory[1] = Record1
    /\ workoutHistory[2] = Record2
    /\ workoutHistory[3].name = "Legs"
    /\ workoutHistory[3].week = 1
    /\ activeWorkout = NoWorkout

CountId(history, id) == Cardinality({k \in 1..Len(history) : history[k].id = id})

EditFinishStep ==
    /\ lastOp' = "finishWorkout"
    /\ IsEdit(activeWorkout)
    /\ WrittenIndex(activeWorkout, workoutHistory) # 0

\* C4: the finish of a session that edits the history record with id h leaves
\* the number of records and the number of records with id h as they were (one
\* record with id h stays one: no duplicate is appended); that record keeps its
\* id, its date and its other fields, its exercises and notes become the
\* session's qualifying sets and notes, and every other record is unchanged.
C4_EditFinishOverwritesInPlace ==
    [][EditFinishStep
       => LET h == activeWorkout.historyId
              i == WrittenIndex(activeWorkout, workoutHistory)
          IN /\ Len(workoutHistory') = Len(workoutHistory)
             /\ CountId(workoutHistory', h) = CountId(workoutHistory, h)
             /\ CountId(workoutHistory, h) = 1 => CountId(workoutHistory', h) = 1
             /\ workoutHistory'[i].id = h
             /\ workoutHistory'[i].date = workoutHistory[i].date
             /\ workoutHistory'[i].programId = workoutHistory[i].programId
             /\ workoutHistory'[i].workoutIndex = workoutHistory[i].workoutIndex
             /\ workoutHistory'[i].week = workoutHistory[i].week
             /\ workoutHistory'[i].name = workoutHistory[i].name
             /\ workoutHistory'[i].exercises = ExpectedExercises(activeWorkout)
             /\ workoutHistory'[i].notes = activeWorkout.notes
             /\ \A k \in 1..Len(workoutHistory) : k # i => workoutHistory'[k] = workoutHistory[k]]_vars

\* record 1 was resumed, edited and finished: it is still the first of two
\* records, with its id and date and with new sets, beside an intact record 2
C4_Witness ==
    /\ lastOp = "finishWorkout"
    /\ Len(workoutHistory) = 2
    /\ workoutHistory[1].id = 1
    /\ workoutHistory[1].date = 1
    /\ workoutHistory[1].exercises # Record1.exercises
    /\ workoutHistory[2] = Record2

\* state.workoutHistory after finishWorkout() on session aw
FinishResult(aw, history) ==
    IF Len(completedExercises(aw)) = 0 THEN history ELSE CommitHistory(aw, history)

\* the session editHistoryWorkout(h) creates from the history
Resume(history, h) == EditSession(history[FindIndex(history, h)], h)

\* one edit of a set field made between the resume and the finish
Edits ==
    [exIndex : 1..2, setIndex : 1..2, field : {"weight"}, value : WeightInputs]
        \cup [exIndex : 1..2, setIndex : 1..2, field : {"reps"}, value : RepsInputs]

Edited(aw, e) == SetField(aw, e.exIndex, e.setIndex, e.field, e.value)

\* the edit addresses a set of the resumed session and the finish is accepted
RoundOk(history, h, e) ==
    /\ FindIndex(history, h) # 0
    /\ e.exIndex \in 1..Len(Resume(history, h).exercises)
    /\ e.setIndex \in 1..Len(Resume(history, h).exercises[e.exIndex].sets)
    /\ Len(completedExercises(Edited(Resume(history, h), e))) > 0

\* the history after editHistoryWorkout(h), the edit e and finishWorkout()
RoundEdit(history, h, e) == FinishResult(Edited(Resume(history, h), e), history)

\* the history after editHistoryWorkout(h) and finishWorkout()
RoundNoEdit(history, h) ==
    IF FindIndex(history, h) = 0 THEN history ELSE FinishResult(Resume(history, h), history)

SameRecordTwice(history, once, twice, h) ==
    /\ twice = once
    /\ Len(once) = Len(history)
    /\ once[FindIndex(history, h)].id = h
    /\ once[FindIndex(history, h)].date = history[FindIndex(history, h)].date

\* the history is as loaded, or has just been written
HistoryWritten == lastOp \in {"init", "finishWorkout", "deleteHistoryWorkout"}

\* C5 as stated: for every history record, resume-then-finish done twice with
\* no edits, or twice with the same edit, leaves the same record and the same
\* History length both times.
C5_AsStated ==
    \A k \in 1..Len(workoutHistory) :
        LET h == workoutHistory[k].id
        IN /\ RoundNoEdit(RoundNoEdit(workoutHistory, h), h) = RoundNoEdit(workoutHistory, h)
           /\ \A e \in Edits :
                 RoundOk(workoutHistory, h, e) /\ RoundOk(RoundEdit(workoutHistory, h, e), h, e)
                    => RoundEdit(RoundEdit(workoutHistory, h, e), h, e)
                           = RoundEdit(workoutHistory, h, e)

\* C5 as amended: for every history record, resume-then-finish done twice with
\* no edits, or twice with the same edit that enters a non-empty value, leaves
\* the same record (id, date, exercises, sets, notes) and the same History
\* length both times; and finishing the same edit session twice over writes
\* the same history as finishing it once. The rounds are taken from every
\* history the program holds, in the state where it was loaded or written.
C5_RefinishIsIdempotent ==
    /\ \A k \in 1..(IF HistoryWritten THEN Len(workoutHistory) ELSE 0) :
          LET h == workoutHistory[k].id
              once == RoundNoEdit(workoutHistory, h)
          IN /\ SameRecordTwice(workoutHistory, once, RoundNoEdit(once, h), h)
             /\ \A e \in Edits :
                   e.value # "" /\ RoundOk(workoutHistory, h, e)
                      => LET edited == RoundEdit(workoutHistory, h, e)
                         IN /\ RoundOk(edited, h, e)
                            /\ SameRecordTwice(workoutHistory, edited,
                                               RoundEdit(edited, h, e), h)
    /\ activeWorkout # NoWorkout /\ IsEdit(activeWorkout)
          => LET once == FinishResult(activeWorkout, workoutHistory)
             IN FinishResult(activeWorkout, once) = once

\* record 1 was resumed and finished with a field edited, in a history of two
C5_Witness ==
    /\ lastOp = "finishWorkout"
    /\ Len(workoutHistory) = 2
    /\ workoutHistory[1].id = 1
    /\ workoutHistory[1].exercises # Record1.exercises
    /\ Len(workoutHistory[1].exercises[1].sets) = 2
    /\ workoutHistory[2] = Record2
    /\ RoundNoEdit(workoutHistory, 1) = workoutHistory

\* C6: a confirmed discard clears the session and leaves the history as it
\* was; a declined discard changes nothing.
C6_DiscardLeavesHistory ==
    [][/\ lastOp' = "discardWorkout"
          => /\ activeWorkout # NoWorkout
             /\ activeWorkout' = NoWorkout
             /\ workoutHistory' = workoutHistory
       /\ lastOp' = "discardWorkout:declined"
          => UNCHANGED <<dataVars, sessionVars, durationVars, restVars, now>>]_vars

\* a session was opened, logged into and discarded, with records in the history
C6_Witness ==
    /\ lastOp = "discardWorkout"
    /\ steps = 3
    /\ activeWorkout = NoWorkout
    /\ workoutHistory = <<Record1, Record2>>

CreatingOps ==
    {"startProgramWorkout", "startStandaloneWorkout", "startQuickWorkout", "editHistoryWorkout"}

DeclinedOps ==
    {"startProgramWorkout:declined", "startStandaloneWorkout:declined",
     "startQuickWorkout:declined"}

\* a step of a start operation to which the user has answered yes
ConfirmedStart ==
    \/ \E programId \in ProgramIds : startProgramWorkout(programId, 1, TRUE)
    \/ \E id \in StandaloneIds : startStandaloneWorkout(id, TRUE)
    \/ \E name \in NameInputs : startQuickWorkout(TRUE, name)

\* C7 as stated: every step that creates a session while one exists, the
\* resume of a history record included, is a step the user has confirmed, and
\* a step the user has declined leaves the existing session as it was.
C7_AsStated ==
    [][/\ activeWorkout # NoWorkout /\ lastOp' \in CreatingOps => ConfirmedStart
       /\ lastOp' \in DeclinedOps => activeWorkout' = activeWorkout]_vars

\* the operations on a session, from its creation to its finish or discard
SessionOps ==
    {"startProgramWorkout", "startStandaloneWorkout", "openActiveWorkout",
     "closeActiveWorkout", "updateActiveSet", "updateNotes", "addSetToActive",
     "selectExercise", "removeActiveExercise", "updateActiveExerciseRest",
     "toggleSetComplete:on", "toggleSetComplete:off", "finishWorkout",
     "finishWorkout:empty", "discardWorkout"}

\* C8: neither the instantiation of a session from a program or standalone
\* template nor any session operation after it changes a template: the
\* programs and the standalone workouts, with their exercises, rep specs and
\* rest overrides, are after the step what they were before it.
C8_TemplatesNeverWritten ==
    [][lastOp' \in SessionOps
       => programs' = programs /\ standaloneWorkouts' = standaloneWorkouts]_vars

\* a session instantiated from the program in this run has a weight logged,
\* and the program is as it was loaded
C8_Witness ==
    /\ lastOp = "updateActiveSet"
    /\ activeWorkout.type = "program"
    /\ activeWorkout.startTime = 3
    /\ activeWorkout.exercises[1].sets[1].weight = "135"
    /\ activeWorkout.exercises[1].sets[1].targetReps = "8-12"
    /\ programs = InitPrograms

\* the rest seconds of a session exercise: its own value when it has one,
\* else the catalog's for its exercise, else 90
ResolvedRest(exercise) ==
    IF exercise.restTime # Undef THEN exercise.restTime
    ELSE IF \E k \in 1..Len(exercises) : exercises[k].id = exercise.exerciseId
         THEN exercises[CHOOSE k \in 1..Len(exercises) :
                           exercises[k].id = exercise.exerciseId].restTime
         ELSE 90

\* C9: a toggle of a set that is not completed makes it completed, changes
\* nothing else of the session, and starts the rest timer: a countdown is
\* live, and remaining and total are both the resolved rest seconds of the
\* set's exercise in the session.
C9_ToggleOnStartsRestTimer ==
    [][lastOp' = "toggleSetComplete:on"
       => \E i \in 1..Len(activeWorkout.exercises) :
             \E j \in 1..Len(activeWorkout.exercises[i].sets) :
                /\ ~activeWorkout.exercises[i].sets[j].completed
                /\ activeWorkout' = [activeWorkout EXCEPT !.exercises[i].sets[j].completed = TRUE]
                /\ restTimerInterval' = LiveInterval
                /\ restTimerRemaining' = ResolvedRest(activeWorkout.exercises[i])
                /\ restTimerTotal' = ResolvedRest(activeWorkout.exercises[i])]_vars

\* a set was completed after the rest of its exercise was edited to 5 seconds
C9_Witness ==
    /\ lastOp = "toggleSetComplete:on"
    /\ restTimerInterval = LiveInterval
    /\ restTimerRemaining = 5
    /\ restTimerTotal = 5
    /\ \E i \in 1..Len(activeWorkout.exercises) :
          /\ activeWorkout.exercises[i].restTime = 5
          /\ \E j \in 1..Len(activeWorkout.exercises[i].sets) :
                activeWorkout.exercises[i].sets[j].completed

\* C10: a toggle of a completed set makes it not completed, changes nothing
\* else of the session, and leaves the rest timer as it was: remaining, total
\* and the live countdowns are unchanged, with a countdown running or not.
C10_ToggleOffLeavesRestTimer ==
    [][lastOp' = "toggleSetComplete:off"
       => /\ \E i \in 1..Len(activeWorkout.exercises) :
                \E j \in 1..Len(activeWorkout.exercises[i].sets) :
                   /\ activeWorkout.exercises[i].sets[j].completed
                   /\ activeWorkout' = [activeWorkout EXCEPT
                                           !.exercises[i].sets[j].completed = FALSE]
          /\ restTimerInterval' = restTimerInterval
          /\ leakedIntervals' = leakedIntervals
          /\ restTimerRemaining' = restTimerRemaining
          /\ restTimerTotal' = restTimerTotal]_vars

\* a set was un-completed while the countdown another set started was running
C10_Witness ==
    /\ lastOp = "toggleSetComplete:off"
    /\ restTimerInterval = LiveInterval
    /\ restTimerRemaining > 0
    /\ restTimerRemaining = restTimerTotal

\* C11 as stated: in every reachable state at most one rest countdown is live
\* (a start while one is running replaces it).
C11_AsStated == LiveCountdowns <= 1

TickOps == {"runRestTimerTick", "runRestTimerTick:expired"}

\* C12: immediately after every adjust, remaining is max(1, previous remaining
\* + delta) for the delta given, hence at least 1, and total is not below
\* remaining; and neither an adjust nor a tick ever lowers total.
C12_AdjustKeepsTotalAndFloor ==
    [][/\ lastOp' = "adjustRestTimer"
          => /\ \E delta \in DeltaInputs :
                   restTimerRemaining' = IF restTimerRemaining + delta >= 1
                                         THEN restTimerRemaining + delta ELSE 1
             /\ restTimerRemaining' >= 1
             /\ restTimerTotal' >= restTimerRemaining'
       /\ lastOp' \in TickOps \cup {"adjustRestTimer"}
          => restTimerTotal' >= restTimerTotal]_vars

\* a countdown of 5 seconds was adjusted down to the floor: total is still 5
C12_Witness ==
    /\ lastOp = "adjustRestTimer"
    /\ restTimerInterval = LiveInterval
    /\ restTimerRemaining = 1
    /\ restTimerTotal = 5

\* C13: addSet appends exactly one set at the end of one exercise and changes
\* nothing else of the session: the new set has empty reps, completed false,
\* and the weight and targetReps of the set that was last before (both empty
\* when the exercise had no set).
C13_AddSetCarriesLastSetForward ==
    [][lastOp' = "addSetToActive"
       => \E i \in 1..Len(activeWorkout.exercises) :
             LET before == activeWorkout.exercises[i].sets
                 after == activeWorkout'.exercises[i].sets
                 added == after[Len(after)]
             IN /\ Len(after) = Len(before) + 1
                /\ \A j \in 1..Len(before) : after[j] = before[j]
                /\ added.reps = ""
                /\ added.completed = FALSE
                /\ added.weight = IF Len(before) > 0 THEN before[Len(before)].weight ELSE ""
                /\ added.targetReps = IF Len(before) > 0 THEN before[Len(before)].targetReps ELSE ""
                /\ activeWorkout' = [activeWorkout EXCEPT !.exercises[i].sets = after]]_vars

\* a third set was added to an exercise whose two sets differ in weight, and
\* carries the weight of the second
C13_Witness ==
    /\ lastOp = "addSetToActive"
    /\ \E i \in 1..Len(activeWorkout.exercises) :
          LET sets == activeWorkout.exercises[i].sets
          IN /\ Len(sets) = 3
             /\ sets[1].weight = ""
             /\ sets[2].weight = "135"
             /\ sets[3] = [weight |-> "135", reps |-> "", targetReps |-> "8-12",
                           completed |-> FALSE]

TemplateStartOps == {"startProgramWorkout", "startStandaloneWorkout"}

\* the template a session names as its origin
TemplateOf(aw) ==
    IF aw.type = "program"
    THEN (CHOOSE program \in Range(programs) : program.id = aw.programId).workouts[aw.workoutIndex]
    ELSE CHOOSE workout \in Range(standaloneWorkouts) : workout.id = aw.standaloneWorkoutId

\* the rest seconds a template entry resolves to: its override when it has
\* one, else the catalog's rest for its exercise id, else 90
EntryRest(entry) ==
    IF entry.restTime # Undef THEN entry.restTime
    ELSE IF \E k \in 1..Len(exercises) : exercises[k].id = entry.exerciseId
         THEN (CHOOSE e \in Range(exercises) : e.id = entry.exerciseId).restTime
         ELSE 90

\* C14: in the session a start from a template creates, the rest seconds of
\* each exercise are the template entry's override if it has one, else the
\* catalog's rest for that exercise id, else 90.
C14_RestResolvedAtInstantiation ==
    [][lastOp' \in TemplateStartOps
       => \A k \in 1..Len(TemplateOf(activeWorkout').exercises) :
             activeWorkout'.exercises[k].restTime
                 = EntryRest(TemplateOf(activeWorkout').exercises[k])]_vars

\* 'Legs' was started after its first exercise had been deleted from the
\* catalog: that exercise rests 90, the second keeps its override of 0
C14_Witness ==
    /\ lastOp = "startStandaloneWorkout"
    /\ \A k \in 1..Len(exercises) : exercises[k].id # 2
    /\ activeWorkout.exercises[1].exerciseId = 2
    /\ activeWorkout.exercises[1].restTime = 90
    /\ activeWorkout.exercises[2].restTime = 0

\* the rep spec of a target set, empty when the template gives none
RepSpec(set) == IF set.reps = UndefStr THEN "" ELSE set.reps

\* C15: the session a start from a template creates has the template's
\* exercises in the template's order, each with as many sets as the entry has
\* target sets, every set with empty weight, empty reps, completed false and
\* the target set's rep spec as targetReps.
C15_SessionMirrorsTemplate ==
    [][lastOp' \in TemplateStartOps
       => LET template == TemplateOf(activeWorkout')
              session == activeWorkout'.exercises
          IN /\ Len(session) = Len(template.exercises)
             /\ \A k \in 1..Len(template.exercises) :
                   /\ session[k].exerciseId = template.exercises[k].exerciseId
                   /\ Len(session[k].sets) = Len(template.exercises[k].sets)
                   /\ \A j \in 1..Len(template.exercises[k].sets) :
                         /\ session[k].sets[j].weight = ""
                         /\ session[k].sets[j].reps = ""
                         /\ session[k].sets[j].completed = FALSE
                         /\ session[k].sets[j].targetReps
                                = RepSpec(template.exercises[k].sets[j])]_vars

\* 'Push Day' was started over a logged session: one exercise, two blank sets
\* with the template's rep spec
C15_Witness ==
    /\ lastOp = "startProgramWorkout"
    /\ Len(activeWorkout.exercises) = 1
    /\ activeWorkout.exercises[1].exerciseId = 1
    /\ activeWorkout.exercises[1].sets
           = <<[weight |-> "", reps |-> "", targetReps |-> "8-12", completed |-> FALSE],
               [weight |-> "", reps |-> "", targetReps |-> "8-12", completed |-> FALSE]>>

\* C16 as stated: only a running timer ticks, and the tick that brings
\* remaining to 0 or below stops the timer for good: it is Idle, and no
\* countdown is left to decrement remaining or to signal expiry again.
C16_AsStated ==
    [][/\ lastOp' \in TickOps => restTimerInterval = LiveInterval
       /\ lastOp' = "runRestTimerTick:expired"
          => /\ restTimerRemaining' <= 0
             /\ restTimerInterval' = NoInterval
             /\ LiveCountdowns' = 0]_vars

\* C17 as stated: skip leaves the timer Idle with no countdown live, however
\* often the timer was started before, and no tick follows a skip.
C17_AsStated ==
    [][/\ lastOp' = "skipRestTimer"
          => /\ restTimerInterval' = NoInterval
             /\ LiveCountdowns' = 0
       /\ lastOp = "skipRestTimer" => lastOp' \notin TickOps]_vars

\* C18 as stated: after a confirmed discard neither the elapsed-time ticker
\* nor a rest countdown is live.
C18_AsStated ==
    [][lastOp' = "discardWorkout"
       => /\ workoutDurationInterval' = NoInterval
          /\ restTimerInterval' = NoInterval
          /\ LiveCountdowns' = 0]_vars

\* C19 as stated: after closeActiveWorkout neither the elapsed-time ticker nor
\* a rest countdown is live.
C19_AsStated ==
    [][lastOp' = "closeActiveWorkout"
       => /\ workoutDurationInterval' = NoInterval
          /\ LiveCountdowns' = 0]_vars

\* C20: the start time of a session, once set, stays what it is for as long
\* as the session exists, through closing and reopening the view and every
\* operation on sets and exercises; and while the ticker is live it counts
\* from that start time, so the elapsed time shown is now - startTime.
C20_ElapsedCountsFromFixedStart ==
    [][/\ /\ activeWorkout # NoWorkout
          /\ activeWorkout' # NoWorkout
          /\ lastOp' \notin CreatingOps
          /\ activeWorkout.startTime # Undef
          => activeWorkout'.startTime = activeWorkout.startTime
       /\ workoutDurationInterval' = LiveInterval
          => /\ activeWorkout' # NoWorkout
             /\ workoutStartTime' = activeWorkout'.startTime
             /\ Elapsed' = now' - activeWorkout'.startTime]_vars

\* a session started at time 1 in an earlier visit was reopened after the
\* clock had moved on with the view closed: the ticker shows now - 1
C20_Witness ==
    /\ lastOp = "openActiveWorkout"
    /\ workoutDurationInterval = LiveInterval
    /\ activeWorkout.startTime = 1
    /\ now = 5
    /\ Elapsed = 4

\* the stored document is the whole document of the state, field by field
StoredIsCurrent ==
    /\ DOMAIN stored = {"exercises", "programs", "standaloneWorkouts", "currentProgram",
                        "currentWeek", "workoutHistory", "activeWorkout"}
    /\ stored.currentProgram = currentProgram
    /\ stored.exercises = exercises
    /\ stored.programs = programs
    /\ stored.standaloneWorkouts = standaloneWorkouts
    /\ stored.currentWeek = currentWeek
    /\ stored.workoutHistory = workoutHistory
    /\ stored.activeWorkout = activeWorkout

ToggleOps == {"toggleSetComplete:on", "toggleSetComplete:off"}

\* C21: every toggle of a set's completion issues a save of the whole document
\* in the same step, not through the debounce timer: with the store up, the
\* stored document after the step is the state after the step, the session
\* with the field edits whose debounced save is still pending included.
C21_TogglePersistsImmediately ==
    [][lastOp' \in ToggleOps =>
          /\ lastSave' \in {"saved", "unhandledrejection"}
          /\ storageUp => StoredIsCurrent']_vars

\* a toggle saved a session whose last field edit still waits for its timeout
C21_Witness ==
    /\ lastOp \in ToggleOps
    /\ saveTimeouts = 1
    /\ lastSave = "saved"
    /\ stored.activeWorkout = activeWorkout
    /\ activeWorkout.exercises[1].sets[1].weight = "135"

DebouncedOps == {"updateActiveSet", "updateActiveExerciseRest", "updateNotes"}

\* C22: a field edit writes nothing itself and leaves exactly one save timeout
\* live, whether or not one was live before (the earlier one is cancelled), so
\* at most one debounced write is ever pending; when the timeout fires after
\* the last edit of a burst nothing stays pending, and with the store up the
\* one write it makes holds the state as the last edit left it.
C22_EditsCoalesceIntoOneWrite ==
    [][/\ saveTimeouts' <= 1
       /\ lastOp' \in DebouncedOps =>
              /\ saveTimeouts' = 1
              /\ stored' = stored
              /\ lastSave' = (IF saveTimeouts = 1 THEN "rescheduled" ELSE "scheduled")
       /\ lastOp' = "runSaveTimeout" =>
              /\ saveTimeouts = 1 /\ saveTimeouts' = 0
              /\ storageUp => StoredIsCurrent']_vars

\* a second edit found the timeout of the first one live and replaced it
C22_Witness ==
    /\ lastOp = "updateActiveSet"
    /\ lastSave = "rescheduled"
    /\ saveTimeouts = 1
    /\ stored.activeWorkout # activeWorkout

\* the sets of every entry of the record for the exercise, in record order
RECURSIVE SetsLogged(_, _)
SetsLogged(entries, exerciseId) ==
    IF entries = <<>> THEN <<>>
    ELSE (IF Head(entries).exerciseId = exerciseId THEN Head(entries).sets ELSE <<>>)
         \o SetsLogged(Tail(entries), exerciseId)

\* the first of the sets whose weight, as a number, no other set exceeds
HeaviestFirst(sets) ==
    LET k == CHOOSE i \in 1..Len(sets) :
                 /\ \A j \in 1..Len(sets) : Number(sets[j].weight) <= Number(sets[i].weight)
                 /\ \A j \in 1..(i - 1) : Number(sets[j].weight) < Number(sets[i].weight)
    IN [weight |-> sets[k].weight, reps |-> sets[k].reps]

\* the records that hold the exercise, and the one of them with the latest date
RecordsWith(history, exerciseId) ==
    {k \in 1..Len(history) : SetsLogged(history[k].exercises, exerciseId) # <<>>}

LatestWith(history, exerciseId) ==
    CHOOSE k \in RecordsWith(history, exerciseId) :
        \A j \in RecordsWith(history, exerciseId) : history[j].date <= history[k].date

\* C23 as stated: the lookup answers "no data" when no record holds the
\* exercise, and otherwise the heaviest set (the first of them on a tie) among
\* all the sets logged for the exercise in the record with the latest date,
\* the sets of a second entry of the same exercise included.
C23_AsStated ==
    lastOp = "getLastExercisePerformance" =>
        lastPerf.result =
            IF RecordsWith(workoutHistory, lastPerf.exerciseId) = {} THEN NoWorkout
            ELSE HeaviestFirst(SetsLogged(
                     workoutHistory[LatestWith(workoutHistory, lastPerf.exerciseId)].exercises,
                     lastPerf.exerciseId))

\* C24: adding an exercise to the session appends one entry, for some catalog
\* exercise, with that exercise's catalog rest time and exactly one empty,
\* uncompleted set; every entry the session had stays where and as it was, an
\* entry of the same exercise included (duplicates are kept apart).
C24_AddExerciseAppendsFreshEntry ==
    [][lastOp' = "selectExercise" =>
          LET before == activeWorkout.exercises
              after == activeWorkout'.exercises
          IN /\ Len(after) = Len(before) + 1
             /\ \A j \in 1..Len(before) : after[j] = before[j]
             /\ \E k \in 1..Len(exercises) :
                    /\ after[Len(after)].exerciseId = exercises[k].id
                    /\ after[Len(after)].restTime = exercises[k].restTime
             /\ after[Len(after)].sets =
                    <<[weight |-> "", reps |-> "", targetReps |-> "", completed |-> FALSE]>>
             /\ activeWorkout' = [activeWorkout EXCEPT !.exercises = after]]_vars

\* the exercise was added to a session that holds it already, with logged sets
C24_Witness ==
    /\ lastOp = "selectExercise"
    /\ \E j \in 1..(Len(activeWorkout.exercises) - 1) :
           /\ activeWorkout.exercises[j].exerciseId =
                  activeWorkout.exercises[Len(activeWorkout.exercises)].exerciseId
           /\ Len(activeWorkout.exercises[j].sets) = 2
           /\ activeWorkout.exercises[j].sets[1].completed

\* the session exercise refers to an exercise the catalog no longer has
Orphan(exercise) == \A k \in 1..Len(exercises) : exercises[k].id # exercise.exerciseId

\* the step completes set j of session exercise i
Completes(i, j) ==
    /\ i \in 1..Len(activeWorkout.exercises)
    /\ j \in 1..Len(activeWorkout.exercises[i].sets)
    /\ ~activeWorkout.exercises[i].sets[j].completed
    /\ activeWorkout' = [activeWorkout EXCEPT !.exercises[i].sets[j].completed = TRUE]

\* C25 as stated: a toggle on an exercise that was deleted from the catalog
\* names the placeholder and rests for the session exercise's own rest time.
C25_AsStated ==
    [][lastOp' = "toggleSetComplete:on" =>
          \E i \in 1..Len(activeWorkout.exercises) :
              \E j \in 1..Len(activeWorkout.exercises[i].sets) :
                  /\ Completes(i, j)
                  /\ Orphan(activeWorkout.exercises[i]) =>
                         /\ restTimerExerciseName' = "Exercise"
                         /\ restTimerTotal' = activeWorkout.exercises[i].restTime]_vars

\* C25: a confirmed deletion takes the exercise out of the catalog and leaves
\* the history, the session and every lookup of a last performance as they
\* were. Afterwards a toggle on an exercise that is gone from the catalog
\* completes the set, names the placeholder 'Exercise' and rests for the
\* session exercise's own rest time, or for 90 seconds when it has none (a
\* session resumed from history); and a finish of a session with such entries
\* succeeds and writes them like any other entry.
C25_DeletedExerciseStaysUsable ==
    [][/\ lastOp' = "deleteExercise" =>
              /\ Len(exercises') = Len(exercises) - 1
              /\ workoutHistory' = workoutHistory
              /\ activeWorkout' = activeWorkout
              /\ \A id \in CatalogIds :
                     getLastExercisePerformance(workoutHistory', id)
                         = getLastExercisePerformance(workoutHistory, id)
       /\ lastOp' = "toggleSetComplete:on" =>
              \E i \in 1..Len(activeWorkout.exercises) :
                  \E j \in 1..Len(activeWorkout.exercises[i].sets) :
                      /\ Completes(i, j)
                      /\ Orphan(activeWorkout.exercises[i]) =>
                             /\ restTimerExerciseName' = "Exercise"
                             /\ restTimerTotal' =
                                    IF activeWorkout.exercises[i].restTime # Undef
                                    THEN activeWorkout.exercises[i].restTime
                                    ELSE DefaultRest
       /\ (/\ FinishStep
           /\ \E k \in KeptExercises(activeWorkout) : Orphan(activeWorkout.exercises[k])) =>
              /\ lastOp' = "finishWorkout"
              /\ WrittenIndex(activeWorkout, workoutHistory) # 0 =>
                     workoutHistory'[WrittenIndex(activeWorkout, workoutHistory)].exercises
                         = ExpectedExercises(activeWorkout)]_vars

\* a set was completed in a session resumed from history after its exercise
\* was deleted: the overlay names the placeholder and counts from 90
C25_Witness ==
    /\ lastOp = "toggleSetComplete:on"
    /\ restTimerExerciseName = "Exercise"
    /\ restTimerTotal = DefaultRest
    /\ \E i \in 1..Len(activeWorkout.exercises) :
           /\ Orphan(activeWorkout.exercises[i])
           /\ activeWorkout.exercises[i].restTime = Undef

ImportOps == {"importData", "importData:unparsable", "importData:invalid", "importData:failed"}

SaveRejected == ~storageUp /\ lastSave' \in {"unhandledrejection", "caught"}

\* C27 as stated: a rejected save leaves the stored document alone and is
\* caught where the save was called, so that no failure escapes unhandled;
\* and a save that succeeds afterwards stores the whole current state.
C27_AsStated ==
    [][/\ SaveRejected => (stored' = stored /\ lastSave' = "caught")
       /\ (lastSave' = "saved" /\ lastOp' \notin ImportOps) => StoredIsCurrent']_vars

\* the session operations other than a finish that succeeds
NonCommittingOps ==
    (SessionOps \ {"finishWorkout"})
        \cup {"startQuickWorkout", "editHistoryWorkout", "discardWorkout:declined",
              "removeActiveExercise:declined", "startStandaloneWorkout:missing",
              "startQuickWorkout:cancelled"}
        \cup DeclinedOps

\* C28: no session operation other than a finish that succeeds changes the
\* history: after a start, a resume from history, an added or removed
\* exercise, an added set, a field, notes or rest edit, a toggle, a close or
\* reopen of the view, a discard or a finish that fails, the history has the
\* same records in the same order. The history changes only in a finish that
\* succeeds and in a confirmed deletion of a record.
C28_OnlyFinishAndDeleteWriteHistory ==
    [][/\ lastOp' \in NonCommittingOps => workoutHistory' = workoutHistory
       /\ workoutHistory' # workoutHistory =>
              lastOp' \in {"finishWorkout", "deleteHistoryWorkout"}]_vars

\* the notes of a session resumed from a record were edited, and the record
\* still has its own
C28_Witness ==
    /\ lastOp = "updateNotes"
    /\ activeWorkout.historyId # Undef
    /\ \E k \in 1..Len(workoutHistory) :
           /\ workoutHistory[k].id = activeWorkout.historyId
           /\ workoutHistory[k].notes # activeWorkout.notes

\* C29 as stated: no two records of the history have the same id, whatever
\* sequence of starts and finishes produced them.
C29_AsStated ==
    \A i \in 1..Len(workoutHistory) : \A j \in 1..Len(workoutHistory) :
        i # j => workoutHistory[i].id # workoutHistory[j].id

\* C30 as stated: after every finish that clears the session, some record of
\* the history holds the session's qualifying sets and its notes, also when
\* the record the session was resumed from has been deleted in the meantime.
C30_AsStated ==
    [][lastOp' = "finishWorkout" =>
          /\ activeWorkout' = NoWorkout
          /\ \E k \in 1..Len(workoutHistory') :
                 /\ workoutHistory'[k].exercises = ExpectedExercises(activeWorkout)
                 /\ workoutHistory'[k].notes =
                        (IF TruthyStr(activeWorkout.notes) THEN activeWorkout.notes ELSE "")]_vars

\* the record as the session cloned from it shows it
AsSession(record) ==
    [k \in 1..Len(record.exercises) |->
        [exerciseId |-> record.exercises[k].exerciseId, sets |-> record.exercises[k].sets]]

SessionContent(aw) ==
    [k \in 1..Len(aw.exercises) |->
        [exerciseId |-> aw.exercises[k].exerciseId, sets |-> aw.exercises[k].sets]]

\* C31: a resume from history leaves every record as it is and gives the
\* session the record's exercises, sets and notes by value; from then on no
\* edit of the resumed session (a field, a toggle, an added set, an added or
\* removed exercise, the notes), no close or reopen and no discard changes
\* any record, so that after the discard the history is what it was before
\* the resume.
C31_ResumedSessionNeverTouchesHistory ==
    [][/\ lastOp' = "editHistoryWorkout" =>
              /\ workoutHistory' = workoutHistory
              /\ \E k \in 1..Len(workoutHistory) :
                     /\ activeWorkout'.historyId = workoutHistory[k].id
                     /\ SessionContent(activeWorkout') = AsSession(workoutHistory[k])
                     /\ activeWorkout'.notes = workoutHistory[k].notes
       /\ (/\ activeWorkout # NoWorkout
           /\ IsEdit(activeWorkout)
           /\ lastOp' \in NonCommittingOps) => workoutHistory' = workoutHistory]_vars

\* a session resumed from a record was edited and then discarded within the
\* second, and both records of the history are as they were loaded
C31_Witness ==
    /\ lastOp = "discardWorkout"
    /\ activeWorkout = NoWorkout
    /\ saveTimeouts = 1
    /\ workoutHistory = <<Record1, Record2>>

\* C32: the save a field, notes or rest edit has scheduled writes, when its
\* timeout fires with the store up, the session and the history of that
\* moment: after a finish or a discard it stores no session and every record
\* of the history, the one the finish committed included.
C32_LateSaveWritesCurrentState ==
    [][(lastOp' = "runSaveTimeout" /\ storageUp) =>
          /\ stored'.activeWorkout = activeWorkout
          /\ stored'.workoutHistory = workoutHistory
          /\ activeWorkout = NoWorkout => stored'.activeWorkout = NoWorkout]_vars

\* the timeout of a notes or field edit fired after the session was finished:
\* no session is stored, and the record of the finish is
C32_Witness ==
    /\ lastOp = "runSaveTimeout"
    /\ lastSave = "saved"
    /\ activeWorkout = NoWorkout
    /\ stored.activeWorkout = NoWorkout
    /\ Len(workoutHistory) = 2
    /\ stored.workoutHistory = workoutHistory

\* C33: once every save issued has completed and no debounced save is waiting,
\* the stored session and history are the ones in memory, however many saves
\* were under way at once: a save issued earlier never overwrites what a save
\* issued later wrote.
C33_StoredConvergesToMemory ==
    (inFlight = <<>> /\ saveTimeouts = 0) =>
        /\ stored.activeWorkout = activeWorkout
        /\ stored.workoutHistory = workoutHistory

C33_Witness ==
    /\ lastOp = "completeSave"
    /\ lastSave = "saved behind another"
    /\ inFlight = <<>>
    /\ saveTimeouts = 0
    /\ activeWorkout = NoWorkout
    /\ stored.activeWorkout = NoWorkout
    /\ Len(workoutHistory) = 2
    /\ stored.workoutHistory = workoutHistory

\* C34 as stated: a reload after a completed save gives back the saved
\* catalog, programs, history and session whenever no exercise of the saved
\* catalog has an empty name, catalogs of fewer than 50 entries included.
C34_AsStated ==
    [][(lastOp' = "initializeApp"
          /\ \A k \in 1..Len(stored.exercises) : stored.exercises[k].name # "") =>
            /\ exercises' = stored.exercises
            /\ programs' = stored.programs
            /\ workoutHistory' = stored.workoutHistory
            /\ activeWorkout' = stored.activeWorkout]_vars

\* C35: in every reachable state the remaining seconds of the rest timer are
\* at most its total, whatever the order of starts, ticks, adjusts and skips.
C35_RemainingAtMostTotal == restTimerRemaining <= restTimerTotal

\* a countdown was extended past the total it was started with, total has
\* followed, and a tick has since taken remaining below it
C35_Witness ==
    /\ lastOp = "runRestTimerTick"
    /\ restTimerInterval = LiveInterval
    /\ restTimerRemaining = 3
    /\ restTimerTotal = 4

\* C36 as stated: the remaining seconds of the rest timer are never negative,
\* also for an exercise whose rest was edited to 0 or cleared, and also after
\* the timer was started more than once.
C36_AsStated == restTimerRemaining >= 0

\* the program state.currentProgram names
SelectedProgram == programs[FindIndex(programs, currentProgram)]

\* C37 as stated: whenever a program is selected, the current week is at
\* least 1 and at most the weeks of that program, after any sequence of
\* selecting, advancing, retreating and saving the program, a save with fewer
\* weeks than the current week included.
C37_AsStated ==
    currentProgram # Null =>
        /\ FindIndex(programs, currentProgram) # 0
        /\ 1 <= currentWeek
        /\ currentWeek <= SelectedProgram.weeks

\* C38 as stated: in the older variant closing the view pauses the session,
\* reopening adds the paused interval to totalPausedTime once, and the
\* durationSeconds of a finish is floor((finishTime - startTime -
\* totalPausedTime) / 1000) clamped at 0: never negative, and with none of
\* the time during which the view was closed in it.
C38_AsStated ==
    [][/\ lastOp' = "older:closeActiveWorkout" =>
             /\ trackedWorkout'.isPaused
             /\ trackedWorkout'.lastPauseTime \in {now, trackedWorkout.lastPauseTime}
       /\ lastOp' = "older:openActiveWorkout" =>
             /\ ~trackedWorkout'.isPaused
             /\ trackedWorkout'.totalPausedTime =
                    IF trackedWorkout.isPaused
                    THEN trackedWorkout.totalPausedTime + (now - trackedWorkout.lastPauseTime)
                    ELSE trackedWorkout.totalPausedTime
       /\ lastOp' = "older:finishWorkout" =>
             /\ durationSeconds' =
                    Max(0, (now - trackedWorkout.startTime - trackedWorkout.totalPausedTime)
                              \div 1000)
             /\ durationSeconds' >= 0
             /\ durationSeconds' * 1000 <=
                    (now - trackedWorkout.startTime) - closedMillis]_vars

====
